---------------------------- MODULE Spec2Model ----------------------------
(***************************************************************************)
(* Model of LiDAR_2_LEGO: brick merge rules (merge.py), the greedy solver  *)
(* (src/solver.py), the voxelizer (src/LIDAR_couches.py) and the           *)
(* structural graph processor (src/LIDAR_traitement.py).                   *)
(*                                                                         *)
(* The program is a batch pipeline of functions over two module globals    *)
(* (the brick catalog as seen by merge and as seen by solver).  The state  *)
(* is those globals plus the run so far: the calls made, the input of the  *)
(* run and the value the last call returned.                               *)
(***************************************************************************)
EXTENDS Integers, Sequences, FiniteSets, TLC

VARIABLES
    merge_VALID_SIZES,   \* merge.VALID_SIZES, the global read by is_valid_lego_part
    solver_VALID_SIZES,  \* the name VALID_SIZES bound in solver by "from merge import"
    calls,               \* names of the functions called so far, in order
    args,                \* the input of the run: the arguments of its first call
    ret                  \* the value returned by the last call

vars == <<merge_VALID_SIZES, solver_VALID_SIZES, calls, args, ret>>

(***************************************************************************)
(* Bounds of the model                                                     *)
(***************************************************************************)
MaxSide == 4        \* largest length / width of a brick handed to the merge functions
MaxTotal == 17      \* largest run length handed to get_best_partition
MaxWidthRef == 3    \* largest width_ref handed to get_best_partition

(***************************************************************************)
(* Generic helpers                                                         *)
(***************************************************************************)
SetMax(S) == CHOOSE m \in S : \A e \in S : e <= m
SetMin(S) == CHOOSE m \in S : \A e \in S : m <= e
Range(s) == {s[i] : i \in 1..Len(s)}

RECURSIVE Concat(_)
Concat(ss) == IF ss = <<>> THEN <<>> ELSE Head(ss) \o Concat(Tail(ss))

RECURSIVE SumSeq(_)
SumSeq(s) == IF s = <<>> THEN 0 ELSE Head(s) + SumSeq(Tail(s))

(***************************************************************************)
(* merge.py: catalog, Brick, validity, neighbourhood                       *)
(***************************************************************************)
\* merge.py:7-17, the module's own catalog
DefaultSizes ==
    {<<1,1>>, <<1,2>>, <<1,4>>, <<2,2>>, <<2,4>>, <<2,1>>, <<4,1>>, <<4,2>>}

\* main.py:108-118, the orchestrator's inventory
INVENTAIRE_BRIQUES ==
    {<<1,1>>, <<1,2>>, <<1,3>>, <<1,4>>, <<1,6>>, <<1,8>>,
     <<2,2>>, <<2,3>>, <<2,4>>, <<2,6>>,
     <<2,1>>, <<3,1>>, <<4,1>>, <<6,1>>, <<8,1>>,
     <<3,2>>, <<4,2>>, <<6,2>>}

Brick(layer, x, y, length, width, color, orientation) ==
    [layer |-> layer, x |-> x, y |-> y, length |-> length, width |-> width,
     color |-> color, orientation |-> orientation]

bbox(b) == <<b.x, b.y, b.x + b.length, b.y + b.width>>

is_valid_lego_part_default(length, width) == <<length, width>> \in DefaultSizes

is_valid_lego_part(length, width) == <<length, width>> \in merge_VALID_SIZES

\* are_neighbors with the two overlap tests made non-strict, so that a shared
\* corner counts as contact
are_neighbors_coin(b1, b2) ==
    IF b1.layer # b2.layer THEN FALSE
    ELSE LET A == bbox(b1)
             B == bbox(b2)
         IN  \/ (A[3] = B[1] \/ B[3] = A[1]) /\ ~(A[4] < B[2] \/ B[4] < A[2])
             \/ (A[4] = B[2] \/ B[4] = A[2]) /\ ~(A[3] < B[1] \/ B[3] < A[1])

are_neighbors(b1, b2) ==
    IF b1.layer # b2.layer THEN FALSE
    ELSE LET A == bbox(b1)
             B == bbox(b2)
             x1a == A[1]  y1a == A[2]  x2a == A[3]  y2a == A[4]
             x1b == B[1]  y1b == B[2]  x2b == B[3]  y2b == B[4]
             vertical_touch ==
                 (x2a = x1b \/ x2b = x1a) /\ ~(y2a <= y1b \/ y2b <= y1a)
             horizontal_touch ==
                 (y2a = y1b \/ y2b = y1a) /\ ~(x2a <= x1b \/ x2b <= x1a)
         IN  vertical_touch \/ horizontal_touch

can_merge_no_color(b1, b2) ==
    IF b1.layer # b2.layer \/ b1.orientation # b2.orientation THEN FALSE
    ELSE IF ~are_neighbors(b1, b2) THEN FALSE
    ELSE IF b1.orientation = "H" THEN b1.y = b2.y /\ b1.width = b2.width
    ELSE IF b1.orientation = "V" THEN b1.x = b2.x /\ b1.length = b2.length
    ELSE FALSE

can_merge(b1, b2) ==
    IF b1.layer # b2.layer \/ b1.color # b2.color
         \/ b1.orientation # b2.orientation THEN FALSE
    ELSE IF ~are_neighbors(b1, b2) THEN FALSE
    ELSE IF b1.orientation = "H" THEN b1.y = b2.y /\ b1.width = b2.width
    ELSE IF b1.orientation = "V" THEN b1.x = b2.x /\ b1.length = b2.length
    ELSE FALSE

\* A call returns either <<>> (Python's None) or <<brick>>.
merge_bricks(b1, b2) ==
    IF ~can_merge(b1, b2) THEN <<>>
    ELSE IF b1.orientation = "H" THEN
        LET x == IF b1.x <= b2.x THEN b1.x ELSE b2.x
            length == b1.length + b2.length
        IN  IF is_valid_lego_part(length, b1.width)
            THEN <<Brick(b1.layer, x, b1.y, length, b1.width, b1.color, "H")>>
            ELSE <<>>
    ELSE IF b1.orientation = "V" THEN
        LET y == IF b1.y <= b2.y THEN b1.y ELSE b2.y
            width == b1.width + b2.width
        IN  IF is_valid_lego_part(b1.length, width)
            THEN <<Brick(b1.layer, b1.x, y, b1.length, width, b1.color, "V")>>
            ELSE <<>>
    ELSE <<>>

\* can_merge_side without the comparison of the colours
can_merge_side_sans_couleur(b1, b2) ==
    IF b1.layer # b2.layer \/ b1.orientation # b2.orientation THEN FALSE
    ELSE IF ~are_neighbors(b1, b2) THEN FALSE
    ELSE IF b1.orientation = "H" THEN b1.x = b2.x /\ b1.length = b2.length
    ELSE IF b1.orientation = "V" THEN b1.y = b2.y /\ b1.width = b2.width
    ELSE FALSE

can_merge_side(b1, b2) ==
    IF b1.layer # b2.layer \/ b1.color # b2.color
         \/ b1.orientation # b2.orientation THEN FALSE
    ELSE IF ~are_neighbors(b1, b2) THEN FALSE
    ELSE IF b1.orientation = "H" THEN b1.x = b2.x /\ b1.length = b2.length
    ELSE IF b1.orientation = "V" THEN b1.y = b2.y /\ b1.width = b2.width
    ELSE FALSE

merge_bricks_side(b1, b2) ==
    IF ~can_merge_side(b1, b2) THEN <<>>
    ELSE IF b1.orientation = "H" THEN
        LET y == IF b1.y <= b2.y THEN b1.y ELSE b2.y
            new_width == b1.width + b2.width
        IN  IF is_valid_lego_part(b1.length, new_width)
            THEN <<Brick(b1.layer, b1.x, y, b1.length, new_width, b1.color, "H")>>
            ELSE <<>>
    ELSE IF b1.orientation = "V" THEN
        LET x == IF b1.x <= b2.x THEN b1.x ELSE b2.x
            new_length == b1.length + b2.length
        IN  IF is_valid_lego_part(new_length, b1.width)
            THEN <<Brick(b1.layer, x, b1.y, new_length, b1.width, b1.color, "V")>>
            ELSE <<>>
    ELSE <<>>

(***************************************************************************)
(* solver.py: get_best_partition                                           *)
(***************************************************************************)
\* solver.py:150-155: lengths of the catalog compatible with width_ref
valid_lengths(sizes, width_ref) ==
    {s[1] : s \in {t \in sizes : t[2] = width_ref}}
        \cup {s[2] : s \in {t \in sizes : t[1] = width_ref}}

\* solver.py:157-167 with the smallest fitting length taken instead of the largest
RECURSIVE partition_smallest_first(_, _)
partition_smallest_first(remaining, lengths) ==
    IF remaining <= 0 THEN <<>>
    ELSE LET fits == {L \in lengths : L <= remaining}
         IN  IF fits # {}
             THEN <<SetMin(fits)>>
                    \o partition_smallest_first(remaining - SetMin(fits), lengths)
             ELSE <<1>> \o partition_smallest_first(remaining - 1, lengths)

\* solver.py:157-167: the while loop over the lengths sorted in descending order
RECURSIVE partition_loop(_, _)
partition_loop(remaining, lengths) ==
    IF remaining <= 0 THEN <<>>
    ELSE LET fits == {L \in lengths : L <= remaining}
         IN  IF fits # {}
             THEN <<SetMax(fits)>> \o partition_loop(remaining - SetMax(fits), lengths)
             ELSE <<1>> \o partition_loop(remaining - 1, lengths)

\* get_best_partition reading the catalog merge holds now (what an injection
\* reaching the solver would give)
get_best_partition_merge_catalog(total_length, width_ref) ==
    partition_loop(total_length, valid_lengths(merge_VALID_SIZES, width_ref))

\* get_best_partition that hands the run back as a single segment
get_best_partition_sans_decoupe(total_length, width_ref) == <<total_length>>

\* solver.py:142-169: reads the name VALID_SIZES of the solver module
get_best_partition(total_length, width_ref) ==
    partition_loop(total_length, valid_lengths(solver_VALID_SIZES, width_ref))

\* solver.py:32-51: the (width, length) keys of the LDraw part table
LEGO_PARTS ==
    {<<1,1>>, <<1,2>>, <<1,3>>, <<1,4>>, <<1,6>>, <<1,8>>, <<1,10>>, <<1,12>>,
     <<1,16>>, <<2,2>>, <<2,3>>, <<2,4>>, <<2,6>>, <<2,8>>, <<2,10>>}

(***************************************************************************)
(* solver.py: the greedy stripe solver                                     *)
(***************************************************************************)
\* Sort keys of list.sort(key=lambda b: (b.y, b.x)) ("yx") and (b.x, b.y) ("xy")
SortKey(b, order) == IF order = "yx" THEN <<b.y, b.x>> ELSE <<b.x, b.y>>
KeyLess(k1, k2) == k1[1] < k2[1] \/ (k1[1] = k2[1] /\ k1[2] < k2[2])

\* list.sort is stable: the rank of an element is the number of elements with a
\* smaller key, or with the same key and an earlier position
SortBricks(bricks, order) ==
    LET n == Len(bricks)
        key == [i \in 1..n |-> SortKey(bricks[i], order)] \o <<>>
        rank == [i \in 1..n |->
                    1 + Cardinality({j \in 1..n :
                            \/ KeyLess(key[j], key[i])
                            \/ (key[j] = key[i] /\ j < i)})] \o <<>>
    IN  [k \in 1..n |-> bricks[CHOOSE i \in 1..n : rank[i] = k]]

\* solver.py:215-250
RECURSIVE tile_run(_, _, _, _, _)
tile_run(ref_b, segments, curr, width_ref, orientation) ==
    IF segments = <<>> THEN <<>>
    ELSE LET seg_len == Head(segments)
             nb == IF orientation = "H"
                   THEN Brick(ref_b.layer, curr, ref_b.y, seg_len, width_ref,
                              ref_b.color, "H")
                   ELSE Brick(ref_b.layer, ref_b.x, curr, width_ref, seg_len,
                              ref_b.color, "V")
         IN  <<nb>> \o tile_run(ref_b, Tail(segments), curr + seg_len, width_ref,
                                orientation)

process_run(run_bricks, orientation) ==
    IF run_bricks = <<>> THEN <<>>
    ELSE LET ref_b == run_bricks[1]
         IN  IF orientation = "H"
             THEN LET total_len == SumSeq([i \in 1..Len(run_bricks) |->
                                              run_bricks[i].length])
                      width_ref == ref_b.width
                  IN  tile_run(ref_b, get_best_partition(total_len, width_ref),
                               ref_b.x, width_ref, "H")
             ELSE LET total_len == SumSeq([i \in 1..Len(run_bricks) |->
                                              run_bricks[i].width])
                      width_ref == ref_b.length
                  IN  tile_run(ref_b, get_best_partition(total_len, width_ref),
                               ref_b.y, width_ref, "V")

\* solver.py:200-204
is_continuous(b, last, orientation) ==
    IF orientation = "H"
    THEN b.y = last.y /\ b.color = last.color /\ b.x = last.x + last.length
    ELSE b.x = last.x /\ b.color = last.color /\ b.y = last.y + last.width

\* solver.py:195-213: last is always the brick before b in the sorted list, so a
\* run starts at index 1 and wherever a brick does not continue the one before;
\* the runs are processed in order, from the run starting at index i
RECURSIVE smart_loop(_, _, _)
smart_loop(bricks, i, orientation) ==
    IF i > Len(bricks) THEN <<>>
    ELSE LET breaks == {j \in (i + 1)..Len(bricks) :
                          ~is_continuous(bricks[j], bricks[j - 1], orientation)}
             next == IF breaks = {} THEN Len(bricks) + 1 ELSE SetMin(breaks)
         IN  process_run(SubSeq(bricks, i, next - 1), orientation)
                \o smart_loop(bricks, next, orientation)

\* solver.py:171-213
optimize_layer_smart(bricks, orientation) ==
    LET sorted == SortBricks(bricks, IF orientation = "H" THEN "yx" ELSE "xy")
    IN  IF sorted = <<>> THEN <<>> ELSE smart_loop(sorted, 1, orientation)

\* solver.py:262-276 without the "continue" of line 272: the first brick of a
\* merged pair is kept beside the merged brick
RECURSIVE side_loop_no_continue(_, _)
side_loop_no_continue(bricks, i) ==
    IF i > Len(bricks) THEN <<>>
    ELSE LET merged == IF i + 1 <= Len(bricks)
                       THEN merge_bricks_side(bricks[i], bricks[i + 1])
                       ELSE <<>>
         IN  merged \o <<bricks[i]>> \o side_loop_no_continue(bricks, i + 1)

\* solver.py:262-276
RECURSIVE side_loop(_, _)
side_loop(bricks, i) ==
    IF i > Len(bricks) THEN <<>>
    ELSE LET merged == IF i + 1 <= Len(bricks)
                       THEN merge_bricks_side(bricks[i], bricks[i + 1])
                       ELSE <<>>
         IN  IF merged # <<>>
             THEN merged \o side_loop(bricks, i + 2)
             ELSE <<bricks[i]>> \o side_loop(bricks, i + 1)

\* solver.py:252-276
optimize_layer_2d_side(bricks, orientation) ==
    LET sorted == SortBricks(bricks, IF orientation = "H" THEN "xy" ELSE "yx")
    IN  side_loop(sorted, 1)

\* solver.py:289-303: the layers in ascending order
RECURSIVE layers_loop(_, _)
layers_loop(bricks, layer_ids) ==
    IF layer_ids = {} THEN <<>>
    ELSE LET layer_idx == SetMin(layer_ids)
             layer_content == SelectSeq(bricks, LAMBDA b : b.layer = layer_idx)
             orient == IF layer_idx % 2 = 0 THEN "H" ELSE "V"
             pass1_bricks == optimize_layer_smart(layer_content, orient)
             pass2_bricks == optimize_layer_2d_side(pass1_bricks, orient)
         IN  pass2_bricks \o layers_loop(bricks, layer_ids \ {layer_idx})

\* Python's format(v, ".1f") of the quotient num / den >= 0, in tenths: the
\* nearest tenth, an exact half going to the even neighbour
FormatTenths(num, den) ==
    LET q == (10 * num) \div den
        r == (10 * num) % den
    IN  IF 2 * r < den THEN q
        ELSE IF 2 * r > den THEN q + 1
        ELSE IF q % 2 = 0 THEN q ELSE q + 1

\* solver.py:279-308.  The result records the list returned, the reduction
\* printed (in tenths of a percent) and whether the call raised
\* (ZeroDivisionError at solver.py:305 for an empty list).
solve_greedy_stripe(bricks) ==
    LET final_bricks == layers_loop(bricks, {bricks[i].layer : i \in 1..Len(bricks)})
    IN  IF Len(bricks) = 0
        THEN [raised |-> TRUE, final_bricks |-> <<>>, reduction |-> 0]
        ELSE [raised |-> FALSE, final_bricks |-> final_bricks,
              reduction |-> FormatTenths(100 * (Len(bricks) - Len(final_bricks)),
                                         Len(bricks))]

\* brique_merge.py:118-139: one 1x1 "H" brick per full voxel, in the order of
\* np.argwhere (y, then x, then z); colour[c] is the palette code of cell c
RECURSIVE cells_in_order(_)
cells_in_order(cells) ==
    IF cells = {} THEN <<>>
    ELSE LET c == CHOOSE c \in cells : \A d \in cells :
                     \/ c[1] < d[1]
                     \/ (c[1] = d[1] /\ c[2] < d[2])
                     \/ (c[1] = d[1] /\ c[2] = d[2] /\ c[3] <= d[3])
         IN  <<c>> \o cells_in_order(cells \ {c})

\* cells are <<iy, ix, iz>>
unit_bricks(cells, colour) ==
    LET order == cells_in_order(cells)
    IN  [i \in 1..Len(order) |->
            Brick(order[i][3], order[i][2], order[i][1], 1, 1, colour[order[i]], "H")]

(***************************************************************************)
(* Spec: the orchestrator's catalog wiring and the merge / partition calls  *)
(***************************************************************************)
Orientations == {"H", "V"}
Colors == {7, 6}     \* two palette codes of brique_merge.LIDAR_TO_LEGO_COLORS

\* First argument of a merge call: a brick of layer 0 placed at (MaxSide, MaxWidth)
MaxWidth == 2
FirstBricks ==
    {Brick(0, MaxSide, MaxWidth, l, w, 7, o) :
        l \in 1..MaxSide, w \in 1..MaxWidth, o \in Orientations}

\* Second argument: any brick around it: same layer and colour, another colour,
\* or the next layer
SecondBricks ==
    UNION {{Brick(k[1], x, y, l, w, k[2], o) :
                 x \in 0..(2 * MaxSide), y \in 0..(2 * MaxWidth)} :
             l \in 1..MaxSide, w \in 1..MaxWidth, o \in Orientations,
             k \in {<<0, 7>>, <<0, 6>>, <<1, 7>>}}

\* Arguments of a get_best_partition call, tagged by their kind
RunArgs ==
    {<<"run", total_length, width_ref>> :
        total_length \in 1..MaxTotal, width_ref \in 1..MaxWidthRef}

\* State after main.py's imports (main.py:39-44): both names denote merge's own
\* catalog; the arguments of the call to come are chosen here.
Init ==
    /\ merge_VALID_SIZES = DefaultSizes
    /\ solver_VALID_SIZES = DefaultSizes
    /\ calls = <<>>
    /\ \/ \E b1 \in FirstBricks, b2 \in SecondBricks : args = <<"bricks", b1, b2>>
       \/ args \in RunArgs
    /\ ret = <<>>

\* main.py:212-214, called once at main.py:243 before any merge or solver call:
\* rebinds the global of module merge only
configurer_inventaire ==
    /\ calls = <<>>
    /\ merge_VALID_SIZES = DefaultSizes
    /\ merge_VALID_SIZES' = INVENTAIRE_BRIQUES
    /\ UNCHANGED <<solver_VALID_SIZES, calls, args, ret>>

Call_merge_bricks ==
    /\ calls = <<>>
    /\ args[1] = "bricks"
    /\ calls' = <<"merge_bricks">>
    /\ ret' = merge_bricks(args[2], args[3])
    /\ UNCHANGED <<merge_VALID_SIZES, solver_VALID_SIZES, args>>

Call_merge_bricks_side ==
    /\ calls = <<>>
    /\ args[1] = "bricks"
    /\ calls' = <<"merge_bricks_side">>
    /\ ret' = merge_bricks_side(args[2], args[3])
    /\ UNCHANGED <<merge_VALID_SIZES, solver_VALID_SIZES, args>>

Call_are_neighbors ==
    /\ calls = <<>>
    /\ args[1] = "bricks"
    /\ calls' = <<"are_neighbors">>
    /\ ret' = are_neighbors(args[2], args[3])
    /\ UNCHANGED <<merge_VALID_SIZES, solver_VALID_SIZES, args>>

Call_get_best_partition ==
    /\ calls = <<>>
    /\ args[1] = "run"
    /\ calls' = <<"get_best_partition">>
    /\ ret' = get_best_partition(args[2], args[3])
    /\ UNCHANGED <<merge_VALID_SIZES, solver_VALID_SIZES, args>>

Next ==
    \/ configurer_inventaire
    \/ Call_merge_bricks
    \/ Call_merge_bricks_side
    \/ Call_are_neighbors
    \/ Call_get_best_partition

Spec == Init /\ [][Next]_vars

(***************************************************************************)
(* SpecPartition: get_best_partition as a function of the run and of the    *)
(* catalog bound in the solver (merge's own, or the inventory when it is    *)
(* installed before the solver module is loaded)                            *)
(***************************************************************************)
InitPartition ==
    /\ solver_VALID_SIZES \in {DefaultSizes, INVENTAIRE_BRIQUES}
    /\ merge_VALID_SIZES = solver_VALID_SIZES
    /\ calls = <<>>
    /\ args \in RunArgs
    /\ ret = <<>>

NextPartition == Call_get_best_partition

SpecPartition == InitPartition /\ [][NextPartition]_vars

(***************************************************************************)
(* SpecSolver: solve_greedy_stripe on the unit bricks of the brick factory, *)
(* run standalone (merge's own catalog) or from the orchestrator (after     *)
(* configurer_inventaire)                                                   *)
(***************************************************************************)
GridX == 3     \* columns of the voxel layers handed to the solver
GridY == 2     \* rows of the voxel layers handed to the solver

\* Colour of a cell: one colour everywhere (split = 0), or the ground colour 6
\* left of column `split` and the building colour 7 from it on.  The voxels fill
\* layer 0, layer 1, or both layers alike.
SplitColour(split, c) == IF c[2] < split THEN 6 ELSE 7

\* A solid single-colour slab of side n on layer 0, as unit bricks
Slab(n) ==
    [i \in 1..(n * n) |-> Brick(0, (i - 1) % n, (i - 1) \div n, 1, 1, 7, "H")]

InitSolver ==
    /\ merge_VALID_SIZES = DefaultSizes
    /\ solver_VALID_SIZES = DefaultSizes
    /\ calls = <<>>
    /\ ret = <<>>
    /\ \/ \E layers \in {{0}, {1}, {0, 1}}, split \in {0, GridX \div 2} :
            \E occ \in SUBSET {<<y, x>> : y \in 0..(GridY - 1), x \in 0..(GridX - 1)} :
                LET cells == {<<c[1], c[2], la>> : c \in occ, la \in layers}
                IN  args = <<"list",
                             unit_bricks(cells, [c \in cells |-> SplitColour(split, c)])>>
       \/ args = <<"list", Slab(10)>>

Call_solve_greedy_stripe ==
    /\ calls = <<>>
    /\ args[1] = "list"
    /\ calls' = <<"solve_greedy_stripe">>
    /\ ret' = solve_greedy_stripe(args[2])
    /\ UNCHANGED <<merge_VALID_SIZES, solver_VALID_SIZES, args>>

NextSolver ==
    \/ configurer_inventaire
    \/ Call_solve_greedy_stripe

SpecSolver == InitSolver /\ [][NextSolver]_vars

(***************************************************************************)
(* Claims C1-C3                                                            *)
(***************************************************************************)
SameKind(b1, b2) ==
    b1.layer = b2.layer /\ b1.color = b2.color /\ b1.orientation = b2.orientation

\* b2 prolongs b1 along x / along y: same cross position and extent, ends touching
AbutX(b1, b2) ==
    /\ b1.y = b2.y /\ b1.width = b2.width
    /\ (b1.x + b1.length = b2.x \/ b2.x + b2.length = b1.x)
AbutY(b1, b2) ==
    /\ b1.x = b2.x /\ b1.length = b2.length
    /\ (b1.y + b1.width = b2.y \/ b2.y + b2.width = b1.y)

\* The brick the claim expects from a merge along x / along y
JoinX(b1, b2) ==
    Brick(b1.layer, SetMin({b1.x, b2.x}), b1.y, b1.length + b2.length, b1.width,
          b1.color, b1.orientation)
JoinY(b1, b2) ==
    Brick(b1.layer, b1.x, SetMin({b1.y, b2.y}), b1.length, b1.width + b2.width,
          b1.color, b1.orientation)

\* Along which axis each function joins, by orientation
LongAlongX(b1) == b1.orientation = "H"
Expected(alongX, b1, b2) ==
    IF SameKind(b1, b2) /\ (IF alongX THEN AbutX(b1, b2) ELSE AbutY(b1, b2))
    THEN LET j == IF alongX THEN JoinX(b1, b2) ELSE JoinY(b1, b2)
         IN  IF <<j.length, j.width>> \in merge_VALID_SIZES THEN <<j>> ELSE <<>>
    ELSE <<>>

\* C1: merge_bricks and merge_bricks_side return a brick exactly when b1 and b2
\* have the same layer, color and orientation, abut with the required alignment
\* and the combined (length, width) is in the active catalog; otherwise None.
\* With the default catalog two adjacent 1x1 H bricks give a 1x2, and a
\* combined length of 5 with width 1 is refused.
C1_MergeOnlyCatalogValid ==
    /\ calls = <<"merge_bricks">> =>
          ret = Expected(LongAlongX(args[2]), args[2], args[3])
    /\ calls = <<"merge_bricks_side">> =>
          ret = Expected(~LongAlongX(args[2]), args[2], args[3])
    /\ calls \in {<<"merge_bricks">>, <<"merge_bricks_side">>} /\ ret # <<>> =>
          <<ret[1].length, ret[1].width>> \in merge_VALID_SIZES
    /\ (/\ calls = <<"merge_bricks">>
        /\ args[2].orientation = "H"
        /\ args[2].width = 1
        /\ args[2].length + args[3].length = 5) => ret = <<>>
    /\ (/\ calls = <<"merge_bricks">>
        /\ merge_VALID_SIZES = DefaultSizes
        /\ args[2] = Brick(0, MaxSide, MaxWidth, 1, 1, 7, "H")
        /\ args[3] = Brick(0, MaxSide + 1, MaxWidth, 1, 1, 7, "H"))
          => ret = <<Brick(0, MaxSide, MaxWidth, 2, 1, 7, "H")>>

C1_Witness ==
    /\ calls = <<"merge_bricks">>
    /\ merge_VALID_SIZES = DefaultSizes
    /\ args[2] = Brick(0, MaxSide, MaxWidth, 1, 1, 7, "H")
    /\ args[3] = Brick(0, MaxSide + 1, MaxWidth, 1, 1, 7, "H")
    /\ ret # <<>>

RECURSIVE PrefixSum(_, _)
PrefixSum(s, n) == IF n = 0 THEN 0 ELSE s[n] + PrefixSum(s, n - 1)

IsUnitBrick(b) == b.length = 1 /\ b.width = 1

\* C4: for every non-empty input of 1x1 bricks solve_greedy_stripe returns at
\* most as many bricks as it received; for the solid 10x10 single-colour
\* single-layer slab it returns strictly fewer than 100 bricks, and the
\* reduction it reports equals 100 * (1 - final / initial).
C4_NeverMoreBricks ==
    (/\ calls = <<"solve_greedy_stripe">>
     /\ Len(args[2]) > 0
     /\ \A i \in 1..Len(args[2]) : IsUnitBrick(args[2][i])) =>
        /\ ~ret.raised
        /\ Len(ret.final_bricks) <= Len(args[2])
        /\ args[2] = Slab(10) =>
              /\ Len(ret.final_bricks) < 100
              /\ ret.reduction = 10 * (100 - Len(ret.final_bricks))

C4_Witness ==
    /\ calls = <<"solve_greedy_stripe">>
    /\ args[2] = Slab(10)
    /\ Len(ret.final_bricks) = 15
    /\ ret.reduction = 850


(***************************************************************************)
(* src/LIDAR_traitement.py: voxel grids and the voxel graph                *)
(*                                                                         *)
(* A VoxelGrid is [shape, counts, class_maj]: shape is <<ny, nx, nz>> and   *)
(* the two arrays are functions over the cells <<iy, ix, iz>>.  A graph is  *)
(* [nodes, edges]: nodes is the sequence of node records in insertion       *)
(* order, each [id, coord, class_maj] with coord = <<x, y, z>>, and edges   *)
(* is a set of two-element sets of node ids.                                *)
(***************************************************************************)
Cells(shape) == (0..(shape[1] - 1)) \X (0..(shape[2] - 1)) \X (0..(shape[3] - 1))

LexLess(a, b) ==
    \/ a[1] < b[1]
    \/ (a[1] = b[1] /\ a[2] < b[2])
    \/ (a[1] = b[1] /\ a[2] = b[2] /\ a[3] < b[3])

\* np.argwhere: the index triples of a mask, in row-major order
argwhere(mask) ==
    IF mask = {} THEN <<>>
    ELSE LET n2 == 1 + SetMax({c[2] : c \in mask})
             n3 == 1 + SetMax({c[3] : c \in mask})
             last == SetMax({(c[1] * n2 + c[2]) * n3 + c[3] : c \in mask})
         IN  SelectSeq([k \in 1..(last + 1) |->
                           <<(k - 1) \div (n2 * n3), ((k - 1) \div n3) % n2, (k - 1) % n3>>],
                       LAMBDA c : c \in mask)

Abs(n) == IF n < 0 THEN 0 - n ELSE n

\* the six offsets of LIDAR_traitement.py:75-79
voisins(c1, c2) ==
    Abs(c1[1] - c2[1]) + Abs(c1[2] - c2[2]) + Abs(c1[3] - c2[3]) = 1

EmptyGraph == [nodes |-> <<>>, edges |-> {}]

NodeIds(G) == {G.nodes[i].id : i \in 1..Len(G.nodes)}

\* LIDAR_traitement.py:45-101
voxel_graphe(counts, class_maj) ==
    LET coords == argwhere({c \in DOMAIN counts : counts[c] > 0})
        n == Len(coords)
    IN  [nodes |-> [i \in 1..n |->
                      [id |-> i - 1,
                       coord |-> <<coords[i][2], coords[i][1], coords[i][3]>>,
                       class_maj |-> class_maj[coords[i]]]],
         edges |-> {{i - 1, j - 1} : <<i, j>> \in
                      {p \in (1..n) \X (1..n) : voisins(coords[p[1]], coords[p[2]])}}]

\* G.subgraph(keep).copy(): the nodes of keep with their attributes and the
\* edges of G with both ends in keep
subgraph(G, keep) ==
    [nodes |-> SelectSeq(G.nodes, LAMBDA nd : nd.id \in keep),
     edges |-> {e \in G.edges : e \subseteq keep}]

\* nx.connected_components: the node set reachable from n
RECURSIVE reach(_, _)
reach(G, seen) ==
    LET more == {m \in NodeIds(G) : \E s \in seen : {s, m} \in G.edges}
    IN  IF more \subseteq seen THEN seen ELSE reach(G, seen \cup more)

connected_components(G) == {reach(G, {n}) : n \in NodeIds(G)}

\* Mutation of graphe_filtre_sol: keeps the ground nodes and their direct
\* neighbours only
graphe_filtre_sol_voisins(G, class_sol) ==
    LET nodes_sol == {G.nodes[i].id : i \in {j \in 1..Len(G.nodes) :
                                               G.nodes[j].class_maj = class_sol}}
    IN  subgraph(G, nodes_sol \cup
                    {m \in NodeIds(G) : \E s \in nodes_sol : {s, m} \in G.edges})

\* LIDAR_traitement.py:195-232
graphe_filtre_sol(G, class_sol) ==
    LET nodes_sol == {G.nodes[i].id : i \in {j \in 1..Len(G.nodes) :
                                               G.nodes[j].class_maj = class_sol}}
        composantes == connected_components(G)
        composantes_valides == {c \in composantes : c \cap nodes_sol # {}}
        nodes_valides == UNION composantes_valides
    IN  subgraph(G, nodes_valides)

\* Mutation of coords_lus: the coordinates read back without the swap
coords_lus_sans_inversion(G) ==
    [i \in 1..Len(G.nodes) |-> G.nodes[i].coord]

\* LIDAR_traitement.py:665-667: the coordinates as read back, x and y swapped
coords_lus(G) ==
    [i \in 1..Len(G.nodes) |->
        <<G.nodes[i].coord[2], G.nodes[i].coord[1], G.nodes[i].coord[3]>>]

\* LIDAR_traitement.py:677-681: the fill loop over the nodes from the i-th on
RECURSIVE remplissage(_, _, _, _, _)
remplissage(coords, classes, i, counts, class_maj) ==
    IF i > Len(coords) THEN [counts |-> counts, class_maj |-> class_maj]
    ELSE LET v == coords[i]
             c == classes[i]
             cm == IF class_maj[v] = 0 \/ (class_maj[v] = 1 /\ c # 1)
                   THEN c ELSE class_maj[v]
         IN  remplissage(coords, classes, i + 1,
                         [counts EXCEPT ![v] = @ + 1],
                         [class_maj EXCEPT ![v] = cm])

\* LIDAR_traitement.py:643-686; coords.max(axis=0) raises ValueError on a graph
\* without nodes
graphe_voxel(G) ==
    IF Len(G.nodes) = 0 THEN [raised |-> TRUE]
    ELSE LET coords == coords_lus(G)
             classes == [i \in 1..Len(G.nodes) |-> G.nodes[i].class_maj]
             shape == [a \in 1..3 |->
                          SetMax({coords[i][a] : i \in 1..Len(coords)}) + 1]
             zeros == [c \in Cells(shape) |-> 0]
             filled == remplissage(coords, classes, 1, zeros, zeros)
         IN  [raised |-> FALSE, shape |-> shape,
              counts |-> filled.counts, class_maj |-> filled.class_maj]


(***************************************************************************)
(* src/LIDAR_traitement.py: ground consolidation (ajouter_sol_rempli,       *)
(* ajouter_sol_coque, ajouter_sol_coque_pillier).  The three functions      *)
(* share their text up to the final fill; they differ in the erosion.       *)
(* The dense grid is indexed <<x, y, z>> from the bounding box's corner.    *)
(***************************************************************************)
\* a numpy array: a function evaluated once, over its whole index set
array(f) == f @@ <<>>

\* a value stored in an np.int8 cell
Int8(c) == ((c + 128) % 256) - 128

Columns(shape) == (0..(shape[1] - 1)) \X (0..(shape[2] - 1))

\* lines 251-260: the dense grid of the graph's bounding box; of two nodes on
\* one cell the later one is the one stored
dense_grid(G) ==
    LET n == Len(G.nodes)
        min_coords == [a \in 1..3 |-> SetMin({G.nodes[i].coord[a] : i \in 1..n})]
        shifted == [i \in 1..n |-> [a \in 1..3 |-> G.nodes[i].coord[a] - min_coords[a]]]
        shape == [a \in 1..3 |-> SetMax({shifted[i][a] : i \in 1..n}) + 1]
    IN  [min_coords |-> min_coords,
         shape |-> shape,
         grid |-> array([c \in Cells(shape) |->
                     LET at == {i \in 1..n : shifted[i] = c}
                     IN  IF at = {} THEN 0 ELSE Int8(G.nodes[SetMax(at)].class_maj)])]

\* the eight offsets of voisins8 and np.roll(np.roll(a, dx, 0), dy, 1)[col]
voisins8 == {<<-1, -1>>, <<-1, 0>>, <<-1, 1>>, <<0, -1>>,
             <<0, 1>>, <<1, -1>>, <<1, 0>>, <<1, 1>>}

roll(shape, col, d) == <<(col[1] - d[1]) % shape[1], (col[2] - d[2]) % shape[2]>>

column_any(grid, shape, col, class) ==
    \E z \in 0..(shape[3] - 1) : grid[<<col[1], col[2], z>>] = class

\* lines 264-272: height of the topmost ground voxel of each column (0 without
\* ground) and the fill below it
initial_fill(grid, shape, class_sol) ==
    LET z_height_map == array([col \in Columns(shape) |->
            IF column_any(grid, shape, col, class_sol)
            THEN SetMax({z \in 0..(shape[3] - 1) : grid[<<col[1], col[2], z>>] = class_sol})
            ELSE 0])
    IN  [z_height_map |-> z_height_map,
         grid |-> array([c \in Cells(shape) |->
                     IF /\ column_any(grid, shape, <<c[1], c[2]>>, class_sol)
                        /\ c[3] <= z_height_map[<<c[1], c[2]>>]
                        /\ grid[c] \in {0, class_sol}
                     THEN class_sol ELSE grid[c]])]

\* lines 281-298: one pass of the while loop of the outward propagation: the
\* candidate columns, the height each would receive, and the grid and the
\* height map after the pass
passe_ext(grid, z_height_map, processed_mask, shape, interior_mask, class_sol, n_min) ==
    LET sol_xy == {col \in Columns(shape) : column_any(grid, shape, col, class_sol)}
        neighbor_count == [col \in Columns(shape) |->
            Cardinality({d \in voisins8 : roll(shape, col, d) \in sol_xy})]
        neighbor_max_z == [col \in Columns(shape) |->
            SetMax({0} \cup {z_height_map[roll(shape, col, d)] :
                               d \in {e \in voisins8 : roll(shape, col, e) \in sol_xy}})]
        candidate == {col \in Columns(shape) :
                        /\ neighbor_count[col] >= n_min
                        /\ col \notin sol_xy
                        /\ col \notin interior_mask
                        /\ col \notin processed_mask}
    IN  [candidate |-> candidate,
         neighbor_max_z |-> neighbor_max_z,
         grid |-> array([c \in Cells(shape) |->
                    IF /\ <<c[1], c[2]>> \in candidate
                       /\ c[3] <= neighbor_max_z[<<c[1], c[2]>>]
                       /\ grid[c] = 0
                    THEN class_sol ELSE grid[c]]),
         z_height_map |-> array([col \in Columns(shape) |->
                    IF col \in candidate THEN neighbor_max_z[col]
                    ELSE z_height_map[col]])]

\* lines 279-299: outward propagation, one pass of the while loop per call;
\* passes counts the passes made before this one
RECURSIVE propagation_ext(_, _, _, _, _, _, _, _)
propagation_ext(grid, z_height_map, processed_mask, shape, interior_mask, class_sol, n_min, passes) ==
    LET pass == passe_ext(grid, z_height_map, processed_mask, shape, interior_mask,
                          class_sol, n_min)
    IN  IF pass.candidate = {}
        THEN [grid |-> grid, z_height_map |-> z_height_map, passes |-> passes + 1]
        ELSE propagation_ext(pass.grid, pass.z_height_map,
                             processed_mask \cup pass.candidate,
                             shape, interior_mask, class_sol, n_min, passes + 1)

\* propagation_int stopping after its second pass
propagation_int_deux_passes(z_height_map, shape, interior_mask, passes) ==
    LET h_max_neighbor == [col \in Columns(shape) |->
            SetMax({0} \cup {z_height_map[roll(shape, col, d)] : d \in voisins8})]
        update_mask == {col \in interior_mask :
                          z_height_map[col] = 0 /\ h_max_neighbor[col] > 0}
    IN  [z_height_map |->
            array([col \in Columns(shape) |->
                IF col \in update_mask THEN h_max_neighbor[col] ELSE z_height_map[col]]),
         passes |-> IF update_mask = {} THEN passes + 1 ELSE passes + 2]

\* lines 302-313: propagation of the height under the buildings, one pass of
\* the while loop per call
RECURSIVE propagation_int(_, _, _, _)
propagation_int(z_height_map, shape, interior_mask, passes) ==
    LET h_max_neighbor == [col \in Columns(shape) |->
            SetMax({0} \cup {z_height_map[roll(shape, col, d)] : d \in voisins8})]
        update_mask == {col \in interior_mask :
                          z_height_map[col] = 0 /\ h_max_neighbor[col] > 0}
    IN  IF update_mask = {}
        THEN [z_height_map |-> z_height_map, passes |-> passes + 1]
        ELSE propagation_int(
                array([col \in Columns(shape) |->
                    IF col \in update_mask THEN h_max_neighbor[col] ELSE z_height_map[col]]),
                shape, interior_mask, passes + 1)

\* Mutation of final_fill: the fill under the buildings writes every cell
final_fill_ecrase(grid, z_height_map, shape, interior_mask, class_sol) ==
    array([c \in Cells(shape) |->
        IF /\ <<c[1], c[2]>> \in interior_mask
           /\ z_height_map[<<c[1], c[2]>>] > 0
           /\ c[3] <= z_height_map[<<c[1], c[2]>>]
        THEN class_sol ELSE grid[c]])

\* lines 315-322: the fill under the buildings
final_fill(grid, z_height_map, shape, interior_mask, class_sol) ==
    array([c \in Cells(shape) |->
        IF /\ <<c[1], c[2]>> \in interior_mask
           /\ z_height_map[<<c[1], c[2]>>] > 0
           /\ c[3] <= z_height_map[<<c[1], c[2]>>]
           /\ grid[c] \in {0, class_sol}
        THEN class_sol ELSE grid[c]])

\* lines 251-322 (and 370-441, 481-564): the filled dense grid
propagation(G, class_sol, class_bat, n_min) ==
    LET dense == dense_grid(G)
        shape == dense.shape
        interior_mask == {col \in Columns(shape) :
                            column_any(dense.grid, shape, col, class_bat)}
        first == initial_fill(dense.grid, shape, class_sol)
        ext == propagation_ext(first.grid, first.z_height_map, {}, shape,
                               interior_mask, class_sol, n_min, 0)
        under == propagation_int(ext.z_height_map, shape, interior_mask, 0)
    IN  [min_coords |-> dense.min_coords,
         shape |-> shape,
         grid |-> final_fill(ext.grid, under.z_height_map, shape, interior_mask,
                             class_sol),
         interior_mask |-> interior_mask,
         z_height_map |-> under.z_height_map,
         passes_ext |-> ext.passes,
         passes_int |-> under.passes]

\* Mutation of is_internal: only the four horizontal neighbours are asked to be
\* ground
is_internal_horizontal(grid, shape, class_sol) ==
    {c \in Cells(shape) :
        /\ grid[c] = class_sol
        /\ \A a \in 1..3 : c[a] # 0 /\ c[a] # shape[a] - 1
        /\ \A a \in 1..2, s \in {-1, 1} :
               grid[[c EXCEPT ![a] = @ + s]] = class_sol}

\* lines 325-337: the ground voxels off the grid's faces whose six neighbours
\* are ground
is_internal(grid, shape, class_sol) ==
    {c \in Cells(shape) :
        /\ grid[c] = class_sol
        /\ \A a \in 1..3 : c[a] # 0 /\ c[a] # shape[a] - 1
        /\ \A a \in 1..3, s \in {-1, 1} :
               grid[[c EXCEPT ![a] = @ + s]] = class_sol}

\* Mutation of pillar_mask_2d: no column is protected
pillar_mask_2d_vide(shape, pillar_step, pillar_width) == {}

\* lines 340-347
pillar_mask_2d(shape, pillar_step, pillar_width) ==
    IF pillar_step > 0
    THEN {col \in Columns(shape) : /\ col[1] % pillar_step < pillar_width
                                   /\ col[2] % pillar_step < pillar_width}
    ELSE {}

\* lines 352-358: the graph of the non-zero cells, without edges
reconstruction(grid, min_coords) ==
    LET voxels_finaux == argwhere({c \in DOMAIN grid : grid[c] # 0})
    IN  [nodes |-> [i \in 1..Len(voxels_finaux) |->
                      [id |-> i - 1,
                       coord |-> <<voxels_finaux[i][1] + min_coords[1],
                                   voxels_finaux[i][2] + min_coords[2],
                                   voxels_finaux[i][3] + min_coords[3]>>,
                       class_maj |-> grid[voxels_finaux[i]]]],
         edges |-> {}]

\* grid[is_internal] = 0
erode(grid, removed) ==
    array([c \in DOMAIN grid |-> IF c \in removed THEN 0 ELSE grid[c]])

\* LIDAR_traitement.py:474-576
ajouter_sol_rempli(G, class_sol, class_bat, n_min) ==
    IF Len(G.nodes) = 0 THEN G
    ELSE LET p == propagation(G, class_sol, class_bat, n_min)
         IN  reconstruction(p.grid, p.min_coords)

\* LIDAR_traitement.py:363-472
ajouter_sol_coque(G, class_sol, class_bat, n_min) ==
    IF Len(G.nodes) = 0 THEN G
    ELSE LET p == propagation(G, class_sol, class_bat, n_min)
         IN  reconstruction(erode(p.grid, is_internal(p.grid, p.shape, class_sol)),
                            p.min_coords)

\* LIDAR_traitement.py:236-361
ajouter_sol_coque_pillier(G, class_sol, class_bat, n_min, pillar_step, pillar_width) ==
    IF Len(G.nodes) = 0 THEN G
    ELSE LET p == propagation(G, class_sol, class_bat, n_min)
             pillars == pillar_mask_2d(p.shape, pillar_step, pillar_width)
             removed == {c \in is_internal(p.grid, p.shape, class_sol) :
                            <<c[1], c[2]>> \notin pillars}
         IN  reconstruction(erode(p.grid, removed), p.min_coords)

(***************************************************************************)
(* SpecGraph: the graph stages of the orchestrator on a voxel grid:         *)
(* voxel_graphe, then optionally graphe_filtre_sol, then graphe_voxel       *)
(***************************************************************************)
MaxVoxels == 3                \* most full voxels of a drawn grid
GraphShape == <<2, 2, 2>>     \* <<ny, nx, nz>> of the drawn grids
GraphClasses == {1, 2, 6}     \* unclassified, ground, building

\* A grid from its full cells, their classes and the one cell (if any) that
\* holds two points instead of one
VoxelGrid(shape, full, cls, heavy) ==
    [shape |-> shape,
     counts |-> [c \in Cells(shape) |->
                     IF c \notin full THEN 0 ELSE IF c = heavy THEN 2 ELSE 1],
     class_maj |-> [c \in Cells(shape) |-> IF c \in full THEN cls[c] ELSE 0]]

\* One ground voxel with a cross of five building voxels floating two layers
\* above it
Floater ==
    LET cross == {<<1, 1, 2>>, <<0, 1, 2>>, <<2, 1, 2>>, <<1, 0, 2>>, <<1, 2, 2>>}
    IN  VoxelGrid(<<3, 3, 3>>, cross \cup {<<1, 1, 0>>},
                  [c \in cross \cup {<<1, 1, 0>>} |-> IF c[3] = 0 THEN 2 ELSE 6],
                  <<>>)

InitGraph ==
    /\ merge_VALID_SIZES = DefaultSizes
    /\ solver_VALID_SIZES = DefaultSizes
    /\ calls = <<>>
    /\ ret = <<>>
    /\ \/ \E full \in {f \in SUBSET Cells(GraphShape) : Cardinality(f) <= MaxVoxels} :
            \E cls \in [full -> GraphClasses], heavy \in full \cup {<<>>} :
                args = <<"grid", VoxelGrid(GraphShape, full, cls, heavy)>>
       \/ args = <<"grid", Floater>>

Call_voxel_graphe ==
    /\ calls = <<>>
    /\ args[1] = "grid"
    /\ calls' = <<"voxel_graphe">>
    /\ ret' = voxel_graphe(args[2].counts, args[2].class_maj)
    /\ UNCHANGED <<merge_VALID_SIZES, solver_VALID_SIZES, args>>

\* main.py:367-369 with PARAM_FILTRE_SOL (main.py:142-144): class_sol 2
Call_graphe_filtre_sol ==
    /\ calls = <<"voxel_graphe">>
    /\ calls' = Append(calls, "graphe_filtre_sol")
    /\ ret' = graphe_filtre_sol(ret, 2)
    /\ UNCHANGED <<merge_VALID_SIZES, solver_VALID_SIZES, args>>

Call_graphe_voxel ==
    /\ calls \in {<<"voxel_graphe">>, <<"voxel_graphe", "graphe_filtre_sol">>}
    /\ calls' = Append(calls, "graphe_voxel")
    /\ ret' = graphe_voxel(ret)
    /\ UNCHANGED <<merge_VALID_SIZES, solver_VALID_SIZES, args>>

NextGraph ==
    \/ Call_voxel_graphe
    \/ Call_graphe_filtre_sol
    \/ Call_graphe_voxel

SpecGraph == InitGraph /\ [][NextGraph]_vars

(***************************************************************************)
(* Claims C5-C6                                                            *)
(***************************************************************************)
GroundIds(G) == {n \in NodeIds(G) : \E i \in 1..Len(G.nodes) :
                    G.nodes[i].id = n /\ G.nodes[i].class_maj = 2}

EdgeClosed(G, K) == \A e \in G.edges : e \cap K # {} => e \subseteq K

\* K is the set of nodes joined to a ground node by a path: the least set that
\* holds the ground nodes and is closed under the edges
GroundConnected(G, K) ==
    /\ GroundIds(G) \subseteq K
    /\ EdgeClosed(G, K)
    /\ \A J \in SUBSET K : (GroundIds(G) \subseteq J /\ EdgeClosed(G, J)) => J = K

\* C5: graphe_filtre_sol returns the subgraph induced on the components that
\* hold a ground node (class 2): the nodes kept are exactly those joined to a
\* ground node by a path, each with its id, coord and class_maj, the edges kept
\* are exactly the input's edges between kept nodes, and a component without
\* ground is removed whole.
C5_GroundComponentsOnly ==
    calls = <<"voxel_graphe", "graphe_filtre_sol">> =>
        LET G == voxel_graphe(args[2].counts, args[2].class_maj)
        IN  /\ GroundConnected(G, NodeIds(ret))
            /\ Range(ret.nodes) = {nd \in Range(G.nodes) : nd.id \in NodeIds(ret)}
            /\ Len(ret.nodes) = Cardinality(NodeIds(ret))
            /\ ret.edges = {e \in G.edges : e \subseteq NodeIds(ret)}

\* The floating cross of five voxels is removed and the ground voxel is kept
C5_Witness ==
    /\ calls = <<"voxel_graphe", "graphe_filtre_sol">>
    /\ args[2] = Floater
    /\ Len(ret.nodes) = 1
    /\ ret.nodes[1].class_maj = 2
    /\ Len(voxel_graphe(args[2].counts, args[2].class_maj).nodes) = 6

\* C6 as stated: the round trip gives back the grid, whatever the grid
C6_RoundTripIdentity ==
    calls = <<"voxel_graphe", "graphe_voxel">> =>
        /\ ~ret.raised
        /\ ret.shape = args[2].shape
        /\ ret.counts = args[2].counts
        /\ ret.class_maj = args[2].class_maj

LastSliceFull(grid, axis) ==
    \E c \in Cells(grid.shape) : grid.counts[c] > 0 /\ c[axis] = grid.shape[axis] - 1

UnitCounts(grid) == \A c \in Cells(grid.shape) : grid.counts[c] \in {0, 1}

\* C6 (amended): for a VoxelGrid whose counts are all 0 or 1 and whose last
\* slice along each axis holds a full voxel, graphe_voxel(voxel_graphe(G))
\* gives back G: same shape, same counts, same class_maj.
C6_RoundTripUnitCounts ==
    (/\ calls = <<"voxel_graphe", "graphe_voxel">>
     /\ UnitCounts(args[2])
     /\ \A axis \in 1..3 : LastSliceFull(args[2], axis)) =>
        /\ ~ret.raised
        /\ ret.shape = args[2].shape
        /\ ret.counts = args[2].counts
        /\ ret.class_maj = args[2].class_maj

C6_Witness ==
    /\ calls = <<"voxel_graphe", "graphe_voxel">>
    /\ UnitCounts(args[2])
    /\ \A axis \in 1..3 : LastSliceFull(args[2], axis)
    /\ args[2].class_maj[<<0, 1, 0>>] = 2
    /\ args[2].class_maj[<<1, 0, 1>>] = 6
    /\ ~ret.raised
    /\ ret.class_maj[<<0, 1, 0>>] = 2


(***************************************************************************)
(* SpecSol: voxel_graphe, then one of the three ground consolidations, on   *)
(* a terrain: a ground sheet at one height, one column drawn freely, and    *)
(* possibly one more voxel; or on a solid block set off the origin          *)
(***************************************************************************)
MaxHeight == 3                \* layers of the drawn terrains
Footprint == <<4, 3>>         \* <<nx, ny>> of the drawn terrains

\* the column drawn freely: a corner, the two inner columns, the far corner
FreeColumns == {<<0, 0>>, <<1, 1>>, <<Footprint[1] - 2, 1>>,
                <<Footprint[1] - 1, Footprint[2] - 1>>}

\* one more voxel <<x, y, z, class>>: none, a voxel of the highest code that
\* fits the dense grid on top of the corner column, or an unclassified voxel
\* inside the block
ExtraVoxels == {<<>>, <<0, 0, MaxHeight - 1, 127>>, <<1, 1, 1, 1>>}

\* contents of the free column: at most two voxels, ground (2) or building (6)
ColumnKinds ==
    {k \in [0..(MaxHeight - 1) -> {0, 2, 6}] :
        Cardinality({z \in 0..(MaxHeight - 1) : k[z] # 0}) <= 2}

\* base is the height of the ground sheet (-1: no sheet); cells are <<iy, ix, iz>>
Terrain(base, excol, kind, extra) ==
    LET shape == <<Footprint[2], Footprint[1], MaxHeight>>
        class == [c \in Cells(shape) |->
                     IF extra # <<>> /\ <<extra[1], extra[2], extra[3]>> = <<c[2], c[1], c[3]>>
                     THEN extra[4]
                     ELSE IF excol = <<c[2], c[1]>> THEN kind[c[3]]
                     ELSE IF c[3] = base THEN 2
                     ELSE 0]
    IN  [shape |-> shape,
         counts |-> [c \in Cells(shape) |-> IF class[c] = 0 THEN 0 ELSE 1],
         class_maj |-> class]

\* A solid ground block of the footprint's size whose corner is at x = 2
ShiftedBlock ==
    LET shape == <<Footprint[2], Footprint[1] + 2, 3>>
    IN  [shape |-> shape,
         counts |-> [c \in Cells(shape) |-> IF c[2] >= 2 THEN 1 ELSE 0],
         class_maj |-> [c \in Cells(shape) |-> IF c[2] >= 2 THEN 2 ELSE 0]]

\* A 5 x 4 field of flat ground (one voxel at z = 0) with one column whose
\* ground reaches z = 1 at (0, 0) and a one-voxel-wide building winding away
\* from it over six columns, no two of them adjacent unless consecutive
Serpent ==
    LET shape == <<4, 5, 2>>
        wall == {<<1, 0>>, <<2, 0>>, <<3, 1>>, <<2, 2>>, <<1, 2>>, <<0, 2>>}
        class == [c \in Cells(shape) |->
                     IF <<c[2], c[1]>> \in wall THEN (IF c[3] = 0 THEN 6 ELSE 0)
                     ELSE IF c[3] = 0 \/ <<c[2], c[1]>> = <<0, 0>> THEN 2
                     ELSE 0]
    IN  [shape |-> shape,
         counts |-> [c \in Cells(shape) |-> IF class[c] = 0 THEN 0 ELSE 1],
         class_maj |-> class]

InitSol ==
    /\ merge_VALID_SIZES = DefaultSizes
    /\ solver_VALID_SIZES = DefaultSizes
    /\ calls = <<>>
    /\ ret = <<>>
    /\ \/ args = <<"grid", Serpent>>
       \/ \E base \in -1..(MaxHeight - 1), extra \in ExtraVoxels :
              \E excol \in FreeColumns :
                  \E kind \in ColumnKinds :
                      args = <<"grid", Terrain(base, excol, kind, extra)>>
       \/ args = <<"grid", ShiftedBlock>>

\* main.py:372-388 with PARAM_CONSOLIDATION (main.py:149-155): class_sol 2,
\* class_bat 6, n_min 2
Call_ajouter_sol_rempli ==
    /\ calls = <<"voxel_graphe">>
    /\ calls' = Append(calls, "ajouter_sol_rempli")
    /\ ret' = ajouter_sol_rempli(ret, 2, 6, 2)
    /\ UNCHANGED <<merge_VALID_SIZES, solver_VALID_SIZES, args>>

Call_ajouter_sol_coque ==
    /\ calls = <<"voxel_graphe">>
    /\ calls' = Append(calls, "ajouter_sol_coque")
    /\ ret' = ajouter_sol_coque(ret, 2, 6, 2)
    /\ UNCHANGED <<merge_VALID_SIZES, solver_VALID_SIZES, args>>

\* with pillar_step 4 and pillar_width 2
Call_ajouter_sol_coque_pillier ==
    /\ calls = <<"voxel_graphe">>
    /\ calls' = Append(calls, "ajouter_sol_coque_pillier")
    /\ ret' = ajouter_sol_coque_pillier(ret, 2, 6, 2, 4, 2)
    /\ UNCHANGED <<merge_VALID_SIZES, solver_VALID_SIZES, args>>

NextSol ==
    \/ Call_voxel_graphe
    \/ Call_ajouter_sol_rempli
    \/ Call_ajouter_sol_coque
    \/ Call_ajouter_sol_coque_pillier

SpecSol == InitSol /\ [][NextSol]_vars


(***************************************************************************)
(* Claims C7-C8                                                            *)
(***************************************************************************)
Consolidations == {"ajouter_sol_rempli", "ajouter_sol_coque", "ajouter_sol_coque_pillier"}

Consolidated == Len(calls) = 2 /\ calls[1] = "voxel_graphe" /\ calls[2] \in Consolidations

\* The graph handed to the consolidation
SolInput == voxel_graphe(args[2].counts, args[2].class_maj)

HasNode(G, coord, class) ==
    \E i \in 1..Len(G.nodes) : G.nodes[i].coord = coord /\ G.nodes[i].class_maj = class

HasCoord(G, coord) == \E i \in 1..Len(G.nodes) : G.nodes[i].coord = coord

\* C7: each of the three ground consolidations only adds or removes ground
\* voxels: every input node of a class in 1..127 other than ground (2) is in
\* the output at the same coord with the same class_maj, and every output node
\* that is not such an input node is a ground node.
C7_OnlyGroundChanges ==
    Consolidated =>
        LET G == SolInput
        IN  /\ \A nd \in Range(G.nodes) :
                   (nd.class_maj \in 1..127 /\ nd.class_maj # 2) =>
                       HasNode(ret, nd.coord, nd.class_maj)
            /\ \A nd \in Range(ret.nodes) :
                   nd.class_maj = 2 \/ HasNode(G, nd.coord, nd.class_maj)
            /\ \A i, j \in 1..Len(ret.nodes) :
                   ret.nodes[i].coord = ret.nodes[j].coord => i = j

\* The filled grid before any erosion, as a graph
Filled == ajouter_sol_rempli(SolInput, 2, 6, 2)

\* After the shell erosion: the building voxel on the inner column and the
\* voxel of code 127 on the corner column are kept, ground was added under the
\* latter, and a ground voxel inside the filled block is gone
C7_Witness ==
    /\ calls = <<"voxel_graphe", "ajouter_sol_coque">>
    /\ HasNode(SolInput, <<0, 0, 2>>, 127)
    /\ HasNode(ret, <<0, 0, 2>>, 127)
    /\ HasNode(SolInput, <<1, 1, 2>>, 6)
    /\ HasNode(ret, <<1, 1, 2>>, 6)
    /\ ~HasCoord(SolInput, <<0, 0, 0>>)
    /\ HasNode(ret, <<0, 0, 0>>, 2)
    /\ HasNode(Filled, <<2, 1, 1>>, 2)
    /\ ~HasCoord(ret, <<2, 1, 1>>)

\* Column indices of a node in the dense grid: its coord counted from the
\* corner of the bounding box of the graph G
DenseColumn(G, coord) ==
    <<coord[1] - SetMin({nd.coord[1] : nd \in Range(G.nodes)}),
      coord[2] - SetMin({nd.coord[2] : nd \in Range(G.nodes)})>>

InPillar(col) == col[1] % 4 < 2 /\ col[2] % 4 < 2

SixNeighboursGround(G, coord) ==
    \A a \in 1..3, s \in {-1, 1} : HasNode(G, [coord EXCEPT ![a] = @ + s], 2)

\* C8: in PILIERS mode with pillar_step 4 and pillar_width 2, for every column
\* (x, y) of the dense grid (columns counted from the corner of the graph's
\* bounding box) with x mod 4 < 2 and y mod 4 < 2, no ground voxel of the
\* filled grid in that column is removed by the shell erosion, its six
\* neighbours being ground or not.
C8_PillarColumnsSurvive ==
    calls = <<"voxel_graphe", "ajouter_sol_coque_pillier">> =>
        LET G == SolInput
            origin == IF Len(G.nodes) = 0 THEN <<0, 0>>
                      ELSE DenseColumn(G, <<0, 0, 0>>)
        IN  \A nd \in Range(Filled.nodes) :
                (/\ nd.class_maj = 2
                 /\ InPillar(<<nd.coord[1] + origin[1], nd.coord[2] + origin[2]>>)) =>
                    HasNode(ret, nd.coord, 2)

\* A ground voxel of a pillar column whose six neighbours are ground is kept,
\* while the like voxel of the next column, outside the lattice, is eroded
C8_Witness ==
    /\ calls = <<"voxel_graphe", "ajouter_sol_coque_pillier">>
    /\ Len(SolInput.nodes) > 0
    /\ DenseColumn(SolInput, <<0, 0, 0>>) = <<0, 0>>
    /\ SixNeighboursGround(Filled, <<1, 1, 1>>)
    /\ HasNode(ret, <<1, 1, 1>>, 2)
    /\ SixNeighboursGround(Filled, <<2, 1, 1>>)
    /\ ~HasCoord(ret, <<2, 1, 1>>)


(***************************************************************************)
(* src/LIDAR_couches.py: the voxelizer.  A sample is a sequence of points   *)
(* [x, y, z, classification]; coordinates and cell sizes are integers in    *)
(* one unit, so that the divisions of the code are exact.                   *)
(***************************************************************************)
CeilDiv(a, b) == (a + b - 1) \div b

\* np.histogramdd with an integer number n of bins on one axis: the edges
\* divide [min, max] of the values S given (widened by 0.5 on each side when
\* min = max) into n equal bins, the last one closed on the right
histogram_bin(i, S, n) ==
    LET lo == SetMin(S)
        hi == SetMax(S)
    IN  IF lo = hi THEN n \div 2
        ELSE IF i = hi THEN n - 1
        ELSE ((i - lo) * n) \div (hi - lo)

\* lines 82-87: the index triple <<iy, ix, iz>> of every point, and the set of
\* the points whose triple is inside the grid
indexation(lidar_numpy, taille_xy, hauteur_couche) ==
    LET pts == 1..Len(lidar_numpy)
        x_min == SetMin({lidar_numpy[i].x : i \in pts})
        y_min == SetMin({lidar_numpy[i].y : i \in pts})
        z_min == SetMin({lidar_numpy[i].z : i \in pts})
        nx == CeilDiv(SetMax({lidar_numpy[i].x : i \in pts}) - x_min, taille_xy)
        ny == CeilDiv(SetMax({lidar_numpy[i].y : i \in pts}) - y_min, taille_xy)
        nz == CeilDiv(SetMax({lidar_numpy[i].z : i \in pts}) - z_min, hauteur_couche)
        index == array([i \in pts |-> <<(lidar_numpy[i].y - y_min) \div taille_xy,
                                        (lidar_numpy[i].x - x_min) \div taille_xy,
                                        (lidar_numpy[i].z - z_min) \div hauteur_couche>>])
    IN  [shape |-> <<ny, nx, nz>>,
         index |-> index,
         valid |-> {i \in pts : /\ index[i][1] < ny
                                /\ index[i][2] < nx
                                /\ index[i][3] < nz}]

\* line 90: the count of every cell, by np.histogramdd over the valid triples
histogramdd(index, valid, shape) ==
    LET values == [a \in 1..3 |-> {index[j][a] : j \in valid}]
        bin == array([i \in valid |->
                  <<histogram_bin(index[i][1], values[1], shape[1]),
                    histogram_bin(index[i][2], values[2], shape[2]),
                    histogram_bin(index[i][3], values[3], shape[3])>>])
    IN  array([c \in Cells(shape) |-> Cardinality({i \in valid : bin[i] = c})])

\* lines 94-103: per cell and per classification of the sample, the number of
\* valid points of that cell (by their index triple) and classification
class_counts_brut(lidar_numpy, index, valid, shape, classes_uniques) ==
    [c \in Cells(shape) |->
        [k \in classes_uniques |->
            Cardinality({i \in valid : index[i] = c /\ lidar_numpy[i].classification = k})]]

\* Mutation of non_classe: the tally of code 1 is left as it is
non_classe_garde(tally, classes_uniques) == tally

\* lines 106-112: the tally of code 1 is zeroed where another classification
\* is present
non_classe(tally, classes_uniques) ==
    IF 1 \in classes_uniques
       /\ Cardinality({k \in classes_uniques : tally[k] > 0}) > 1
       /\ tally[1] > 0
    THEN [tally EXCEPT ![1] = 0]
    ELSE tally

\* lines 115-116: np.argmax over the classifications in increasing order, the
\* first maximum winning
argmax_classe(tally, classes_uniques) ==
    LET best == SetMax({tally[k] : k \in classes_uniques})
    IN  SetMin({k \in classes_uniques : tally[k] = best})

\* Mutation of seuil_densite: the threshold clears counts only
seuil_densite_counts(counts, class_maj, densite_min) ==
    [counts |-> [c \in DOMAIN counts |-> IF counts[c] < densite_min THEN 0 ELSE counts[c]],
     class_maj |-> class_maj]

\* lines 119-121
seuil_densite(counts, class_maj, densite_min) ==
    [counts |-> [c \in DOMAIN counts |-> IF counts[c] < densite_min THEN 0 ELSE counts[c]],
     class_maj |-> [c \in DOMAIN counts |->
                       IF counts[c] < densite_min THEN 0 ELSE class_maj[c]]]

\* LIDAR_couches.py:44-123.  x.min() raises on an empty sample, np.histogramdd
\* on a number of bins below 1, np.argmax when no point is valid.
LIDAR_couches(lidar_numpy, taille_xy, hauteur_couche, densite_min) ==
    IF Len(lidar_numpy) = 0 THEN [raised |-> TRUE]
    ELSE LET ind == indexation(lidar_numpy, taille_xy, hauteur_couche)
             shape == ind.shape
         IN  IF (\E a \in 1..3 : shape[a] < 1) \/ ind.valid = {} THEN [raised |-> TRUE]
             ELSE LET counts == histogramdd(ind.index, ind.valid, shape)
                      classes_uniques == {lidar_numpy[i].classification : i \in ind.valid}
                      class_counts == class_counts_brut(lidar_numpy, ind.index, ind.valid,
                                                        shape, classes_uniques)
                      class_maj == [c \in Cells(shape) |->
                          argmax_classe(non_classe(class_counts[c], classes_uniques),
                                        classes_uniques)]
                      seuil == seuil_densite(counts, class_maj, densite_min)
                  IN  [raised |-> FALSE, shape |-> shape,
                       counts |-> seuil.counts, class_maj |-> seuil.class_maj]

(***************************************************************************)
(* SpecCouches: LIDAR_couches on a sample of at most MaxPoints points       *)
(***************************************************************************)
MaxPoints == 4       \* most points of a drawn sample
MaxDensity == 2      \* largest densite_min drawn

\* Where the points of a sample may lie, and their classifications
Positions == <<<<0, 0, 0>>, <<1, 0, 1>>, <<3, 1, 3>>, <<4, 3, 2>>>>
Classifications == <<1, 2, 6>>

\* The k-th kind of point: a position and a classification
PointKind(k) ==
    LET pos == Positions[((k - 1) \div Len(Classifications)) + 1]
    IN  [x |-> pos[1], y |-> pos[2], z |-> pos[3],
         classification |-> Classifications[((k - 1) % Len(Classifications)) + 1]]

InitCouches ==
    /\ merge_VALID_SIZES = DefaultSizes
    /\ solver_VALID_SIZES = DefaultSizes
    /\ calls = <<>>
    /\ ret = <<>>
    /\ \E n \in 0..MaxPoints, taille \in {1, 2}, densite_min \in 0..MaxDensity :
          \E kinds \in [1..n -> 1..(Len(Positions) * Len(Classifications))] :
              /\ \A i \in 1..(n - 1) : kinds[i] <= kinds[i + 1]
              /\ args = <<"points", [i \in 1..n |-> PointKind(kinds[i])],
                          taille, densite_min>>

\* LIDAR_couches called with one cell size for the three axes
Call_LIDAR_couches ==
    /\ calls = <<>>
    /\ args[1] = "points"
    /\ calls' = <<"LIDAR_couches">>
    /\ ret' = LIDAR_couches(args[2], args[3], args[3], args[4])
    /\ UNCHANGED <<merge_VALID_SIZES, solver_VALID_SIZES, args>>

NextCouches == Call_LIDAR_couches

SpecCouches == InitCouches /\ [][NextCouches]_vars


(***************************************************************************)
(* Claims C9-C10                                                           *)
(***************************************************************************)
\* The points of the sample that fall inside the grid, with their cells
Indexed == indexation(args[2], args[3], args[3])

\* Number of valid points of cell v with classification k
Tally(ind, v, k) ==
    Cardinality({i \in ind.valid : ind.index[i] = v /\ args[2][i].classification = k})

\* The tally the majority is taken on: code 1 counts for nothing where another
\* classification is present
AdjustedTally(ind, present, v, k) ==
    IF k = 1 /\ \E other \in present \ {1} : Tally(ind, v, other) > 0
    THEN 0 ELSE Tally(ind, v, k)

\* C9: for every voxel kept by the density threshold, class_maj is the
\* classification with the highest point tally in the voxel, the tally of code
\* 1 being zeroed when the voxel also contains another classification, ties
\* going to the lowest code; so a voxel that contains code 1 together with
\* another code never gets majority 1.
C9_MajorityRule ==
    (calls = <<"LIDAR_couches">> /\ ~ret.raised) =>
        LET ind == Indexed
            present == {args[2][i].classification : i \in ind.valid}
        IN  \A v \in Cells(ret.shape) :
                ret.counts[v] >= args[4] =>
                    LET m == ret.class_maj[v]
                    IN  /\ m \in present
                        /\ \A k \in present :
                               \/ AdjustedTally(ind, present, v, k)
                                      < AdjustedTally(ind, present, v, m)
                               \/ /\ AdjustedTally(ind, present, v, k)
                                        = AdjustedTally(ind, present, v, m)
                                  /\ m <= k
                        /\ (Tally(ind, v, 1) > 0 /\ \E k \in present \ {1} :
                                                        Tally(ind, v, k) > 0) => m # 1

\* A kept voxel with two points of code 1 and one of code 6 gets majority 6
C9_Witness ==
    /\ calls = <<"LIDAR_couches">>
    /\ ~ret.raised
    /\ \E v \in Cells(ret.shape) :
          /\ ret.counts[v] >= args[4]
          /\ ret.counts[v] = 3
          /\ Tally(Indexed, v, 1) = 2
          /\ Tally(Indexed, v, 6) = 1
          /\ ret.class_maj[v] = 6

\* Number of points binned into each cell by line 90
Binned == histogramdd(Indexed.index, Indexed.valid, Indexed.shape)

\* C10: in the grid returned by LIDAR_couches, for every voxel v and every
\* densite_min, if the number of points binned into v is below densite_min
\* then counts[v] = 0 and class_maj[v] = 0.
C10_DensityThreshold ==
    (calls = <<"LIDAR_couches">> /\ ~ret.raised) =>
        LET binned == array(Binned)
        IN  \A v \in Cells(ret.shape) :
                binned[v] < args[4] => (ret.counts[v] = 0 /\ ret.class_maj[v] = 0)

\* With densite_min = 2 a voxel holding one point is cleared while a voxel
\* holding two points is kept
C10_Witness ==
    /\ calls = <<"LIDAR_couches">>
    /\ ~ret.raised
    /\ args[4] = 2
    /\ \E v, w \in Cells(ret.shape) :
          /\ Binned[v] = 1
          /\ \E k \in {1, 2, 6} : Tally(Indexed, v, k) = 1
          /\ ret.counts[v] = 0
          /\ ret.class_maj[v] = 0
          /\ Binned[w] = 2
          /\ ret.counts[w] = 2
          /\ ret.class_maj[w] # 0

(***************************************************************************)
(* Claim C14                                                               *)
(***************************************************************************)
\* The two footprints have a cell in common
Overlap(b1, b2) ==
    /\ b1.x < b2.x + b2.length /\ b2.x < b1.x + b1.length
    /\ b1.y < b2.y + b2.width /\ b2.y < b1.y + b1.width

\* One brick ends along x (along y) where the other begins
TouchX(b1, b2) == b1.x + b1.length = b2.x \/ b2.x + b2.length = b1.x
TouchY(b1, b2) == b1.y + b1.width = b2.y \/ b2.y + b2.width = b1.y

\* Length of the common part of the two extents along y (along x)
SharedY(b1, b2) ==
    SetMin({b1.y + b1.width, b2.y + b2.width}) - SetMax({b1.y, b2.y})
SharedX(b1, b2) ==
    SetMin({b1.x + b1.length, b2.x + b2.length}) - SetMax({b1.x, b2.x})

\* The touching side of one brick lies, over its whole length, on the touching
\* side of the other
FullEdge(b1, b2) ==
    \/ TouchX(b1, b2) /\ SharedY(b1, b2) \in {b1.width, b2.width}
    \/ TouchY(b1, b2) /\ SharedX(b1, b2) \in {b1.length, b2.length}

\* The two bricks touch along a segment of at least one stud
SharedSegment(b1, b2) ==
    \/ TouchX(b1, b2) /\ SharedY(b1, b2) >= 1
    \/ TouchY(b1, b2) /\ SharedX(b1, b2) >= 1

\* C14 (as stated): are_neighbors(b1, b2) is true only if b1 and b2 are in the
\* same layer, their bounding boxes do not overlap, they are not merely
\* diagonal, and they share a full edge: the touching side of one brick
\* coincides over its whole length with the touching side of the other.
C14_FullEdgeOnly ==
    (calls = <<"are_neighbors">> /\ ret = TRUE) =>
        /\ args[2].layer = args[3].layer
        /\ ~Overlap(args[2], args[3])
        /\ FullEdge(args[2], args[3])

\* C14 (amended): are_neighbors(b1, b2) is true only if b1 and b2 are in the
\* same layer, their bounding boxes do not overlap, they are not merely
\* diagonal, and one brick ends along one axis where the other begins while
\* their extents along the other axis have at least one stud in common.
C14_SharedSegmentOnly ==
    (calls = <<"are_neighbors">> /\ ret = TRUE) =>
        /\ args[2].layer = args[3].layer
        /\ ~Overlap(args[2], args[3])
        /\ SharedSegment(args[2], args[3])

\* are_neighbors answered True for two bricks of width 2 that touch along x
\* and are shifted by one stud along y
C14_Witness ==
    /\ calls = <<"are_neighbors">>
    /\ ret = TRUE
    /\ TouchX(args[2], args[3])
    /\ args[2].width = 2 /\ args[3].width = 2
    /\ SharedY(args[2], args[3]) = 1

(***************************************************************************)
(* Claims C19-C20                                                          *)
(***************************************************************************)
\* The (layer, x, y) cells under a brick, each with the brick's colour
Studs(b) ==
    {<<b.layer, x, y, b.color>> :
        x \in b.x..(b.x + b.length - 1), y \in b.y..(b.y + b.width - 1)}

Coloured(bricks) == UNION {Studs(bricks[i]) : i \in 1..Len(bricks)}

PairwiseDisjoint(bricks) ==
    \A i, j \in 1..Len(bricks) :
        i < j => ~(bricks[i].layer = bricks[j].layer /\ Overlap(bricks[i], bricks[j]))

UnitInput ==
    /\ calls = <<"solve_greedy_stripe">>
    /\ Len(args[2]) > 0
    /\ \A i \in 1..Len(args[2]) : IsUnitBrick(args[2][i])

\* C19: for every input of pairwise non-overlapping 1x1 bricks, the bricks
\* returned by solve_greedy_stripe are pairwise non-overlapping and their
\* footprints cover exactly the same (layer, x, y) cells as the input, each
\* cell keeping the colour of the input brick that occupied it.
C19_SameCellsSameColours ==
    (UnitInput /\ PairwiseDisjoint(args[2])) =>
        /\ PairwiseDisjoint(ret.final_bricks)
        /\ Coloured(ret.final_bricks) = Coloured(args[2])

\* A two-coloured layer solved into fewer bricks, one of them two studs wide
C19_Witness ==
    /\ UnitInput
    /\ PairwiseDisjoint(args[2])
    /\ {args[2][i].color : i \in 1..Len(args[2])} = {6, 7}
    /\ Len(ret.final_bricks) < Len(args[2])
    /\ \E i \in 1..Len(ret.final_bricks) :
          ret.final_bricks[i].length >= 2 /\ ret.final_bricks[i].width >= 2

Normalised(b) == <<SetMin({b.length, b.width}), SetMax({b.length, b.width})>>

\* C20: for every input of 1x1 bricks, with merge's default catalog and with
\* the orchestrator's inventory, every brick returned by solve_greedy_stripe
\* has a size whose normalised (min, max) pair is in the active catalog and in
\* LEGO_PARTS: no segment outside the catalog, no brick without a part file.
C20_OutputSizesInCatalog ==
    UnitInput =>
        \A i \in 1..Len(ret.final_bricks) :
            /\ Normalised(ret.final_bricks[i]) \in merge_VALID_SIZES
            /\ Normalised(ret.final_bricks[i]) \in LEGO_PARTS

\* The 10x10 slab solved under the orchestrator's inventory: rows cut into
\* 4 + 4 + 2 and widened to 2x4 and 2x2
C20_Witness ==
    /\ UnitInput
    /\ merge_VALID_SIZES = INVENTAIRE_BRIQUES
    /\ args[2] = Slab(10)
    /\ \E i \in 1..Len(ret.final_bricks) : Normalised(ret.final_bricks[i]) = <<2, 4>>
    /\ \E i \in 1..Len(ret.final_bricks) : Normalised(ret.final_bricks[i]) = <<2, 2>>

(***************************************************************************)
(* cost_func_change.py: the structural cost.  Bricks are objects: the grid  *)
(* map holds references and the penalties compare identities, so a brick is *)
(* denoted by its index in the list (0 stands for None).  The cost is a     *)
(* fraction [num, den].                                                     *)
(***************************************************************************)
RECURSIVE SumFn(_, _)
SumFn(f, S) ==
    IF S = {} THEN 0
    ELSE LET x == CHOOSE x \in S : TRUE IN f[x] + SumFn(f, S \ {x})

RECURSIVE Product(_)
Product(S) ==
    IF S = {} THEN 1
    ELSE LET x == CHOOSE x \in S : TRUE IN x * Product(S \ {x})

\* cost_func_change.py:5-19: each cell refers to the last brick written on it
build_grid_map(bricks) ==
    LET covered(i) ==
            {<<bricks[i].layer, bricks[i].x + dx, bricks[i].y + dy>> :
                dx \in 0..(bricks[i].length - 1), dy \in 0..(bricks[i].width - 1)}
        cells == UNION {covered(i) : i \in 1..Len(bricks)}
    IN  array([c \in cells |-> SetMax({i \in 1..Len(bricks) : c \in covered(i)})])

\* dict.get: None (0) for a cell that is not a key
grid_get(grid, cell) == IF cell \in DOMAIN grid THEN grid[cell] ELSE 0

\* Mutation of perpendicularity_penalty_fast: without processed_pairs, a pair
\* is counted once per shared cell
perpendicularity_penalty_par_cellule(bricks, layer_bricks, grid, current_z) ==
    Cardinality({c \in UNION {{<<i, ix, iy>> :
                        ix \in bbox(bricks[i])[1]..(bbox(bricks[i])[3] - 1),
                        iy \in bbox(bricks[i])[2]..(bbox(bricks[i])[4] - 1)} :
                     i \in layer_bricks} :
        /\ grid_get(grid, <<current_z - 1, c[2], c[3]>>) # 0
        /\ bricks[c[1]].orientation =
               bricks[grid_get(grid, <<current_z - 1, c[2], c[3]>>)].orientation})

\* cost_func_change.py:25-50
perpendicularity_penalty_fast(bricks, layer_bricks, grid, current_z) ==
    LET below(i) ==
            {grid_get(grid, <<current_z - 1, ix, iy>>) :
                ix \in bbox(bricks[i])[1]..(bbox(bricks[i])[3] - 1),
                iy \in bbox(bricks[i])[2]..(bbox(bricks[i])[4] - 1)} \ {0}
        processed_pairs == UNION {{<<i, j>> : j \in below(i)} : i \in layer_bricks}
    IN  Cardinality({p \in processed_pairs :
                        bricks[p[1]].orientation = bricks[p[2]].orientation})

\* cost_func_change.py:57-101
vertical_boundary_penalty_fast(bricks, layer_bricks, grid, current_z) ==
    LET differ(c_in, c_out) ==
            IF grid_get(grid, c_in) # grid_get(grid, c_out) THEN 1 ELSE 0
        edges(i) ==
            LET B == bbox(bricks[i])
                x1 == B[1]  y1 == B[2]  x2 == B[3]  y2 == B[4]
                z == current_z - 1
            IN  IF bricks[i].orientation = "H"
                THEN differ(<<z, x1, y1>>, <<z, x1 - 1, y1>>)
                       + differ(<<z, x2 - 1, y1>>, <<z, x2, y1>>)
                ELSE IF bricks[i].orientation = "V"
                THEN differ(<<z, x1, y1>>, <<z, x1, y1 - 1>>)
                       + differ(<<z, x1, y2 - 1>>, <<z, x1, y2>>)
                ELSE 0
    IN  SumFn([i \in layer_bricks |-> edges(i)], layer_bricks)

\* cost_func_change.py:107-161, in units of 1/den: an edge e strictly inside
\* the span [a1, a2] of the brick adds |e - centre| / ((a2 - a1) / 2)
horizontal_alignment_penalty_fast(bricks, layer_bricks, grid, current_z, den) ==
    LET offset(e, a1, a2) ==
            IF a1 < e /\ e < a2
            THEN (Abs(2 * e - (a1 + a2)) * den) \div (a2 - a1)
            ELSE 0
        junctions(i) ==
            LET B == bbox(bricks[i])
                x1 == B[1]  y1 == B[2]  x2 == B[3]  y2 == B[4]
                neighbors ==
                    IF bricks[i].orientation = "H"
                    THEN UNION {{grid_get(grid, <<current_z, ix, y1 - 1>>),
                                 grid_get(grid, <<current_z, ix, y2>>)} :
                                    ix \in x1..(x2 - 1)} \ {0}
                    ELSE UNION {{grid_get(grid, <<current_z, x1 - 1, iy>>),
                                 grid_get(grid, <<current_z, x2, iy>>)} :
                                    iy \in y1..(y2 - 1)} \ {0}
                one(n) ==
                    LET N == bbox(bricks[n])
                    IN  IF bricks[i].orientation = "H"
                        THEN offset(N[1], x1, x2) + offset(N[3], x1, x2)
                        ELSE IF bricks[i].orientation = "V"
                        THEN offset(N[2], y1, y2) + offset(N[4], y1, y2)
                        ELSE 0
            IN  SumFn([n \in neighbors |-> one(n)], neighbors)
    IN  SumFn([i \in layer_bricks |-> junctions(i)], layer_bricks)

\* A common denominator of the fractions of line 146-159: the spans of the bricks
cost_den(bricks) ==
    Product({bricks[i].length : i \in 1..Len(bricks)}
                \cup {bricks[i].width : i \in 1..Len(bricks)})

\* cost of one layer, cost_func_change.py:192-206, with C1 = C2 = C3 = 1.0;
\* `below` is the layer whose presence lets P1 and P2 count
layer_cost(bricks, grid, layer_idx, below, den) ==
    LET layers == {bricks[i].layer : i \in 1..Len(bricks)}
        current_bricks == {i \in 1..Len(bricks) : bricks[i].layer = layer_idx}
        P1 == IF below \in layers
              THEN perpendicularity_penalty_fast(bricks, current_bricks, grid, layer_idx)
              ELSE 0
        P2 == IF below \in layers
              THEN vertical_boundary_penalty_fast(bricks, current_bricks, grid, layer_idx)
              ELSE 0
        P3 == horizontal_alignment_penalty_fast(bricks, current_bricks, grid,
                                                layer_idx, den)
    IN  (P1 + P2) * den + P3

\* total_cost_function with the test of line 196 made on the layer above
total_cost_function_couche_dessus(bricks) ==
    IF Len(bricks) = 0 THEN [num |-> 0, den |-> 1]
    ELSE LET grid == build_grid_map(bricks)
             den == cost_den(bricks)
             layers == {bricks[i].layer : i \in 1..Len(bricks)}
         IN  [num |-> SumFn([l \in layers |->
                                layer_cost(bricks, grid, l, l + 1, den)], layers),
              den |-> den]

\* cost_func_change.py:168-208
total_cost_function(bricks) ==
    IF Len(bricks) = 0 THEN [num |-> 0, den |-> 1]
    ELSE LET grid == build_grid_map(bricks)
             den == cost_den(bricks)
             layers == {bricks[i].layer : i \in 1..Len(bricks)}
         IN  [num |-> SumFn([l \in layers |->
                                layer_cost(bricks, grid, l, l - 1, den)], layers),
              den |-> den]

(***************************************************************************)
(* SpecCost: total_cost_function on short lists of bricks over three layers *)
(* (0, 1 and 3: layer 3 has no layer right below it)                        *)
(***************************************************************************)
MaxBricks == 3

CostShapes == {<<4, 1, "H">>, <<1, 1, "H">>, <<1, 3, "V">>}

CostBricks ==
    {Brick(l, p, p, sh[1], sh[2], 7, sh[3]) :
        l \in {0, 1, 3}, p \in {0, 1}, sh \in CostShapes}

InitCost ==
    /\ merge_VALID_SIZES = DefaultSizes
    /\ solver_VALID_SIZES = DefaultSizes
    /\ calls = <<>>
    /\ ret = <<>>
    /\ \E n \in 0..MaxBricks : \E bricks \in [1..n -> CostBricks] :
          args = <<"list", bricks>>

Call_total_cost_function ==
    /\ calls = <<>>
    /\ args[1] = "list"
    /\ calls' = <<"total_cost_function">>
    /\ ret' = total_cost_function(args[2])
    /\ UNCHANGED <<merge_VALID_SIZES, solver_VALID_SIZES, args>>

\* cost_func_change.py:25-51 called as line 198 calls it: the bricks of one
\* layer, the grid map of the whole list and the index of the layer
Call_perpendicularity_penalty_fast ==
    /\ calls = <<>>
    /\ args[1] = "list"
    /\ calls' = <<"perpendicularity_penalty_fast">>
    /\ \E current_z \in {args[2][i].layer : i \in 1..Len(args[2])} :
           ret' = [current_z |-> current_z,
                   penalty |-> perpendicularity_penalty_fast(args[2],
                                   {i \in 1..Len(args[2]) : args[2][i].layer = current_z},
                                   build_grid_map(args[2]), current_z)]
    /\ UNCHANGED <<merge_VALID_SIZES, solver_VALID_SIZES, args>>

NextCost ==
    \/ Call_total_cost_function
    \/ Call_perpendicularity_penalty_fast

SpecCost == InitCost /\ [][NextCost]_vars

(***************************************************************************)
(* Claim C18                                                               *)
(***************************************************************************)
LayersOf(bricks) == {bricks[i].layer : i \in 1..Len(bricks)}
InLayer(bricks, l) == {i \in 1..Len(bricks) : bricks[i].layer = l}

\* The sum the claim describes, in units of 1/den
ClaimedCost(bricks, den) ==
    LET grid == build_grid_map(bricks)
        term(l) ==
            (IF (l - 1) \in LayersOf(bricks)
             THEN den * (perpendicularity_penalty_fast(bricks, InLayer(bricks, l), grid, l)
                         + vertical_boundary_penalty_fast(bricks, InLayer(bricks, l), grid, l))
             ELSE 0)
            + horizontal_alignment_penalty_fast(bricks, InLayer(bricks, l), grid, l, den)
    IN  SumFn([l \in LayersOf(bricks) |-> term(l)], LayersOf(bricks))

\* C18: total_cost_function returns a value >= 0 for every set of bricks under
\* the default weights, and exactly 0.0 for an empty set; P1 and P2 of a layer
\* are counted only when a layer with index one less is present, P3 is counted
\* for every layer.
C18_CostNonNegative ==
    calls = <<"total_cost_function">> =>
        /\ ret.den >= 1
        /\ ret.num >= 0
        /\ Len(args[2]) = 0 => ret.num = 0
        /\ ret.num = ClaimedCost(args[2], ret.den)

\* A 1x4 on layer 1 over a 1x4 of layer 0 with a 1x1 beside it on layer 1:
\* P1 = 1, P2 = 2 and the 1x1's edge at a quarter of the span gives P3 = 0.5
C18_Witness ==
    /\ calls = <<"total_cost_function">>
    /\ args[2] = <<Brick(0, 0, 0, 4, 1, 7, "H"), Brick(1, 0, 0, 4, 1, 7, "H"),
                   Brick(1, 1, 1, 1, 1, 7, "H")>>
    /\ 2 * ret.num = 7 * ret.den

(***************************************************************************)
(* LIDAR_LDRAW.py and solver.py: the .ldr writers.  A file is the sequence  *)
(* of its lines; a line is the tuple of its blank-separated fields, the     *)
(* line type ("0" or "1") first; a "{:.2f}" field is held in hundredths.    *)
(***************************************************************************)
\* LIDAR_LDRAW.py:139-153: ldraw_couleurs.get(c, 24)
ldraw_couleurs_get(c) ==
    CASE c = 1 -> 0    [] c = 2 -> 6    [] c = 3 -> 10   [] c = 4 -> 2
      [] c = 5 -> 288  [] c = 6 -> 7    [] c = 9 -> 1    [] c = 17 -> 4
      [] c = 64 -> 14  [] c = 66 -> 15  [] c = 67 -> 8   [] OTHER -> 24

Identity3 == <<1, 0, 0, 0, 1, 0, 0, 0, 1>>

\* LIDAR_LDRAW.py:77 and 156-159
flat_header ==
    <<(<<"0", "Generated from LiDAR voxel model">>), (<<"0", "Author: Python Script">>)>>

\* LIDAR_LDRAW.py:39-83
voxel_LDRAW(counts) ==
    LET voxel_plein == argwhere({c \in DOMAIN counts : counts[c] > 0})
        lignes == [k \in 1..Len(voxel_plein) |->
                      <<"1", 16, voxel_plein[k][2] * 20, (0 - voxel_plein[k][3]) * 24,
                        voxel_plein[k][1] * 20, Identity3, "3005.dat">>]
    IN  flat_header \o lignes

\* LIDAR_LDRAW.py:87-173
voxel_LDRAW_classif(counts, class_maj) ==
    LET voxel_plein == argwhere({c \in DOMAIN counts : counts[c] > 0})
        lignes == [k \in 1..Len(voxel_plein) |->
                      <<"1", ldraw_couleurs_get(class_maj[voxel_plein[k]]),
                        voxel_plein[k][2] * 20, (0 - voxel_plein[k][3]) * 24,
                        voxel_plein[k][1] * 20, Identity3, "3005.dat">>]
    IN  flat_header \o lignes

\* dict.get on LEGO_PARTS (solver.py:32-51, 115): "" stands for None
LEGO_PARTS_get(dims) ==
    CASE dims = <<1, 1>> -> "3005.dat"  [] dims = <<1, 2>> -> "3004.dat"
      [] dims = <<1, 3>> -> "3622.dat"  [] dims = <<1, 4>> -> "3010.dat"
      [] dims = <<1, 6>> -> "3009.dat"  [] dims = <<1, 8>> -> "3008.dat"
      [] dims = <<1, 10>> -> "6111.dat" [] dims = <<1, 12>> -> "6112.dat"
      [] dims = <<1, 16>> -> "2465.dat" [] dims = <<2, 2>> -> "3003.dat"
      [] dims = <<2, 3>> -> "3002.dat"  [] dims = <<2, 4>> -> "3001.dat"
      [] dims = <<2, 6>> -> "2456.dat"  [] dims = <<2, 8>> -> "3007.dat"
      [] dims = <<2, 10>> -> "3006.dat" [] OTHER -> ""

\* solver.py:100-134: the line of one brick
ldr_line(b) ==
    LET center_x == 100 * (b.x * 20) + 50 * (b.length * 20)
        center_y == 100 * (b.y * 20) + 50 * (b.width * 20)
        z_pos == 100 * ((0 - b.layer) * 24)
        dims_sorted == <<SetMin({b.width, b.length}), SetMax({b.width, b.length})>>
        part_file == LEGO_PARTS_get(dims_sorted)
    IN  IF part_file # ""
        THEN <<"1", b.color, center_x, z_pos, center_y,
               IF b.width > b.length THEN <<0, 0, 1, 0, 1, 0, -1, 0, 0>> ELSE Identity3,
               part_file>>
        ELSE <<"1", b.color, center_x, z_pos, center_y,
               <<b.length, 0, 0, 0, 1, 0, 0, 0, b.width>>, "3005.dat">>

\* solver.py:93
solver_header(filename) ==
    <<(<<"0", "Optimized LEGO Model">>), (<<"0", "Name: " \o filename>>),
      (<<"0", "Author: Greedy Solver">>)>>

\* export_to_ldr that writes no line for a brick without a part file
export_to_ldr_sans_repli(bricks, filename) ==
    solver_header(filename)
        \o [k \in 1..Len(SelectSeq(bricks, LAMBDA b :
                                LEGO_PARTS_get(Normalised(b)) # "")) |->
               ldr_line(SelectSeq(bricks, LAMBDA b :
                                LEGO_PARTS_get(Normalised(b)) # "")[k])]

\* solver.py:91-139
export_to_ldr(bricks, filename) ==
    solver_header(filename) \o [k \in 1..Len(bricks) |-> ldr_line(bricks[k])]

(***************************************************************************)
(* SpecExport: the three writers, the flat ones on a voxel grid and the     *)
(* solver's on a list of bricks                                             *)
(***************************************************************************)
ExportClasses == {2, 6, 127}

ExportBricks ==
    {Brick(l, l, 0, sz[1], sz[2], 7, "H") :
        l \in {0, 1}, sz \in {<<1, 1>>, <<4, 2>>, <<2, 4>>, <<5, 1>>}}

InitExport ==
    /\ merge_VALID_SIZES = DefaultSizes
    /\ solver_VALID_SIZES = DefaultSizes
    /\ calls = <<>>
    /\ ret = <<>>
    /\ \/ \E full \in {f \in SUBSET Cells(GraphShape) : Cardinality(f) <= MaxVoxels} :
            \E cls \in [full -> ExportClasses] :
                args = <<"grid", VoxelGrid(GraphShape, full, cls, <<>>)>>
       \/ \E n \in 0..MaxBricks : \E bricks \in [1..n -> ExportBricks] :
            args = <<"list", bricks>>

Call_voxel_LDRAW ==
    /\ calls = <<>>
    /\ args[1] = "grid"
    /\ calls' = <<"voxel_LDRAW">>
    /\ ret' = voxel_LDRAW(args[2].counts)
    /\ UNCHANGED <<merge_VALID_SIZES, solver_VALID_SIZES, args>>

Call_voxel_LDRAW_classif ==
    /\ calls = <<>>
    /\ args[1] = "grid"
    /\ calls' = <<"voxel_LDRAW_classif">>
    /\ ret' = voxel_LDRAW_classif(args[2].counts, args[2].class_maj)
    /\ UNCHANGED <<merge_VALID_SIZES, solver_VALID_SIZES, args>>

Call_export_to_ldr ==
    /\ calls = <<>>
    /\ args[1] = "list"
    /\ calls' = <<"export_to_ldr">>
    /\ ret' = export_to_ldr(args[2], "model.ldr")
    /\ UNCHANGED <<merge_VALID_SIZES, solver_VALID_SIZES, args>>

NextExport ==
    \/ Call_voxel_LDRAW
    \/ Call_voxel_LDRAW_classif
    \/ Call_export_to_ldr

SpecExport == InitExport /\ [][NextExport]_vars

(***************************************************************************)
(* Claim C13                                                               *)
(***************************************************************************)
Writers == {<<"voxel_LDRAW">>, <<"voxel_LDRAW_classif">>, <<"export_to_ldr">>}

\* Number of bricks or full voxels handed to the writer
Placed ==
    IF args[1] = "list" THEN Len(args[2])
    ELSE Cardinality({c \in DOMAIN args[2].counts : args[2].counts[c] > 0})

\* The file is `h` lines of type 0 followed by one line of type 1 per placed
\* brick or voxel, and nothing else
HeaderThenPlacements(h) ==
    /\ Len(ret) = h + Placed
    /\ \A k \in 1..Len(ret) : ret[k][1] = (IF k <= h THEN "0" ELSE "1")

\* C13 (as stated): every .ldr file written by voxel_LDRAW, voxel_LDRAW_classif
\* and export_to_ldr consists of exactly two header comment lines starting with
\* "0 " followed by exactly one placement line starting with "1 " per brick or
\* full voxel, and nothing else.
C13_TwoHeaderLines ==
    calls \in Writers => HeaderThenPlacements(2)

\* C13 (amended): the files of voxel_LDRAW and voxel_LDRAW_classif begin with
\* exactly two comment lines and the file of export_to_ldr with exactly three;
\* then comes exactly one placement line per brick or full voxel, and nothing
\* else.
C13_HeaderThenOneLinePerBrick ==
    /\ calls \in {<<"voxel_LDRAW">>, <<"voxel_LDRAW_classif">>} => HeaderThenPlacements(2)
    /\ calls = <<"export_to_ldr">> => HeaderThenPlacements(3)

\* export_to_ldr wrote a file for a rotated 2x4 and a 1x5 that has no part file
C13_Witness ==
    /\ calls = <<"export_to_ldr">>
    /\ Len(args[2]) = 2
    /\ Len(ret) = 5
    /\ ret[4][6] = <<0, 0, 1, 0, 1, 0, -1, 0, 0>>
    /\ ret[5][6] = <<5, 0, 0, 0, 1, 0, 0, 0, 1>>

(***************************************************************************)
(* src/LIDAR_traitement.py: reclassification, class filter, wall-gap fill.  *)
(* A call is described by the two objects it leaves behind: `arg`, the      *)
(* value of the object it was handed, and `ret`, the value it returned.     *)
(***************************************************************************)
node_index(G, id) == CHOOSE i \in 1..Len(G.nodes) : G.nodes[i].id = id

neighbors(G, id) == {m \in NodeIds(G) : {id, m} \in G.edges}

\* LIDAR_traitement.py:140-151: the non-classified nodes of the pass, in order,
\* each one seeing the classes already written in this pass.  max(set(..),
\* key=..count) takes a most frequent class; with a single class to propagate
\* there is only one candidate.
RECURSIVE corriger_passe(_, _, _, _)
corriger_passe(G_corr, nodes_nc, classes_a_propager, changements) ==
    IF nodes_nc = <<>> THEN [G_corr |-> G_corr, changements |-> changements]
    ELSE LET i == Head(nodes_nc)
             voisins_n == neighbors(G_corr, G_corr.nodes[i].id)
             classe(v) == G_corr.nodes[node_index(G_corr, v)].class_maj
             candidats == {classe(v) : v \in voisins_n} \cap classes_a_propager
             count(c) == Cardinality({v \in voisins_n : classe(v) = c})
         IN  IF candidats = {}
             THEN corriger_passe(G_corr, Tail(nodes_nc), classes_a_propager, changements)
             ELSE LET c_new == CHOOSE c \in candidats :
                                  \A d \in candidats : count(d) <= count(c)
                  IN  corriger_passe(
                          [G_corr EXCEPT !.nodes[i].class_maj = c_new],
                          Tail(nodes_nc), classes_a_propager, changements + 1)

\* LIDAR_traitement.py:133-156
RECURSIVE corriger_boucle(_, _, _, _, _)
corriger_boucle(G_corr, it, class_non_classe, classes_a_propager, max_iter) ==
    IF it >= max_iter THEN G_corr
    ELSE LET nodes_nc == SelectSeq([i \in 1..Len(G_corr.nodes) |-> i],
                             LAMBDA i : G_corr.nodes[i].class_maj = class_non_classe)
         IN  IF nodes_nc = <<>> THEN G_corr
             ELSE LET p == corriger_passe(G_corr, nodes_nc, classes_a_propager, 0)
                  IN  IF p.changements = 0 THEN p.G_corr
                      ELSE corriger_boucle(p.G_corr, it + 1, class_non_classe,
                                           classes_a_propager, max_iter)

\* LIDAR_traitement.py:105-159: the value returned
corriger_voxels_non_classes_iteratif(G, class_non_classe, classes_a_propager, max_iter) ==
    corriger_boucle(G, 0, class_non_classe, classes_a_propager, max_iter)

\* The reclassification writing into the graph it was handed (no G.copy())
corriger_objets_sans_copie(G, class_non_classe, classes_a_propager, max_iter) ==
    [arg |-> corriger_voxels_non_classes_iteratif(G, class_non_classe,
                                                  classes_a_propager, max_iter),
     ret |-> corriger_voxels_non_classes_iteratif(G, class_non_classe,
                                                  classes_a_propager, max_iter)]

\* LIDAR_traitement.py:129: every write of the loop goes to G_corr = G.copy()
corriger_objets(G, class_non_classe, classes_a_propager, max_iter) ==
    [arg |-> G,
     ret |-> corriger_voxels_non_classes_iteratif(G, class_non_classe,
                                                  classes_a_propager, max_iter)]

\* LIDAR_traitement.py:163-191
graphe_filtre_classes(G, classes_gardees) ==
    subgraph(G, {G.nodes[i].id : i \in {j \in 1..Len(G.nodes) :
                                           G.nodes[j].class_maj \in classes_gardees}})

\* The key (x, y, z) of a node added by remplir_trous_verticaux: a tuple, never
\* equal to one of the integer keys; denoted by a negative number
tuple_id(base, x, y, z) == 0 - (1 + (x * base + y) * base + z)

coord_base(G) ==
    1 + SetMax({0} \cup {G.nodes[i].coord[a] : i \in 1..Len(G.nodes), a \in 1..3})

\* LIDAR_traitement.py:590-593: the columns in the order of their first node
RECURSIVE colonnes(_, _)
colonnes(G, i) ==
    IF i > Len(G.nodes) THEN <<>>
    ELSE LET col == <<G.nodes[i].coord[1], G.nodes[i].coord[2]>>
         IN  (IF \E j \in 1..(i - 1) :
                    <<G.nodes[j].coord[1], G.nodes[j].coord[2]>> = col
              THEN <<>> ELSE <<col>>) \o colonnes(G, i + 1)

\* LIDAR_traitement.py:599-619: the voxels to add in one column, in order:
\* between two successive building voxels more than one layer apart, every z
\* in between with the class of the upper one
trous(G, col, classes_batiment) ==
    LET lst == SelectSeq(G.nodes, LAMBDA nd : <<nd.coord[1], nd.coord[2]>> = col)
        n == Len(lst)
        rank == [i \in 1..n |->
                    1 + Cardinality({j \in 1..n :
                            \/ lst[j].coord[3] < lst[i].coord[3]
                            \/ (lst[j].coord[3] = lst[i].coord[3] /\ j < i)})]
        lst_sorted == [k \in 1..n |-> lst[CHOOSE i \in 1..n : rank[i] = k]]
        idx_bat == SelectSeq([i \in 1..n |-> i],
                             LAMBDA i : lst_sorted[i].class_maj \in classes_batiment)
    IN  Concat([k \in 1..(IF Len(idx_bat) < 2 THEN 0 ELSE Len(idx_bat) - 1) |->
                  LET z1 == lst_sorted[idx_bat[k]].coord[3]
                      z2 == lst_sorted[idx_bat[k + 1]].coord[3]
                  IN  [d \in 1..(IF z2 > z1 + 1 THEN z2 - z1 - 1 ELSE 0) |->
                          [coord |-> <<col[1], col[2], z1 + d>>,
                           class_maj |-> lst_sorted[idx_bat[k + 1]].class_maj]]])

\* LIDAR_traitement.py:620-635: one voxel after the other into G2
RECURSIVE remplir_noeuds(_, _, _)
remplir_noeuds(G2, todo, base) ==
    IF todo = <<>> THEN G2
    ELSE LET c == Head(todo).coord
             node == tuple_id(base, c[1], c[2], c[3])
             dessous == tuple_id(base, c[1], c[2], c[3] - 1)
             dessus == tuple_id(base, c[1], c[2], c[3] + 1)
         IN  IF node \in NodeIds(G2) THEN remplir_noeuds(G2, Tail(todo), base)
             ELSE remplir_noeuds(
                    [nodes |-> Append(G2.nodes,
                                  [id |-> node, coord |-> c,
                                   class_maj |-> Head(todo).class_maj]),
                     edges |-> G2.edges
                        \cup (IF dessous \in NodeIds(G2) THEN {{node, dessous}} ELSE {})
                        \cup (IF dessus \in NodeIds(G2) THEN {{node, dessus}} ELSE {})],
                    Tail(todo), base)

\* LIDAR_traitement.py:580-639: the value returned
remplir_trous_verticaux(G, classes_batiment) ==
    LET cols == colonnes(G, 1)
        todo == Concat([k \in 1..Len(cols) |-> trous(G, cols[k], classes_batiment)])
    IN  remplir_noeuds(G, todo, coord_base(G) + 1)

\* LIDAR_traitement.py:587: the voxels are added to G2 = G.copy(); G is read
remplir_objets(G, classes_batiment) ==
    [arg |-> G, ret |-> remplir_trous_verticaux(G, classes_batiment)]

\* solver.py:179-186: bricks.sort(...) sorts the list the caller handed over
optimize_layer_smart_objets(bricks, orientation) ==
    [arg |-> SortBricks(bricks, IF orientation = "H" THEN "yx" ELSE "xy"),
     ret |-> optimize_layer_smart(bricks, orientation)]

\* solver.py:254-257: likewise
optimize_layer_2d_side_objets(bricks, orientation) ==
    [arg |-> SortBricks(bricks, IF orientation = "H" THEN "xy" ELSE "yx"),
     ret |-> optimize_layer_2d_side(bricks, orientation)]

(***************************************************************************)
(* SpecStages: each stage function called on its own on an input the        *)
(* pipeline can hand it: a voxel grid, the graph of a voxel grid, the       *)
(* bricks of one layer, or the bricks of a model.  After a call `args`      *)
(* holds the input object as the call left it and `ret` the value returned. *)
(***************************************************************************)
StageShape == <<1, 2, 3>>
StageClasses == {1, 2, 6, 65}
classes_gardees == {1, 2, 3, 4, 5, 6, 9, 17, 64, 66, 67}

\* The unit bricks of one layer as the brick factory lists them, and what
\* the first pass makes of them
StageLayers ==
    LET units == {unit_bricks({<<c[1], c[2], la>> : c \in occ},
                              [c \in {<<d[1], d[2], la>> : d \in occ} |->
                                  SplitColour(1, c)]) :
                     occ \in SUBSET ((0..(GridY - 1)) \X (0..(GridX - 1))),
                     la \in {0, 1}}
    IN  units \cup {optimize_layer_smart(u, o) : u \in units, o \in Orientations}

InitStages ==
    /\ merge_VALID_SIZES = DefaultSizes
    /\ solver_VALID_SIZES = DefaultSizes
    /\ calls = <<>>
    /\ ret = <<>>
    /\ \/ \E full \in {f \in SUBSET Cells(StageShape) : Cardinality(f) <= MaxVoxels} :
            \E cls \in [full -> StageClasses] :
                LET g == VoxelGrid(StageShape, full, cls, <<>>)
                IN  \/ args = <<"grid", g>>
                    \/ args = <<"graph", voxel_graphe(g.counts, g.class_maj)>>
       \/ \E bricks \in StageLayers :
            \/ args = <<"list", bricks>>
            \/ \E o \in Orientations : args = <<"layer", bricks, o>>

\* main.py:357-359 with PARAM_CORRECTION (main.py:126-131)
Stage_corriger ==
    /\ calls = <<>>
    /\ args[1] = "graph"
    /\ calls' = <<"corriger_voxels_non_classes_iteratif">>
    /\ LET o == corriger_objets(args[2], 1, {6}, 5)
       IN  args' = <<"graph", o.arg>> /\ ret' = o.ret
    /\ UNCHANGED <<merge_VALID_SIZES, solver_VALID_SIZES>>

\* main.py:362-364; the function reads G and returns G.subgraph(..).copy()
Stage_graphe_filtre_classes ==
    /\ calls = <<>>
    /\ args[1] = "graph"
    /\ calls' = <<"graphe_filtre_classes">>
    /\ ret' = graphe_filtre_classes(args[2], classes_gardees)
    /\ UNCHANGED <<merge_VALID_SIZES, solver_VALID_SIZES, args>>

\* main.py:367-369; the function reads G and returns G.subgraph(..).copy()
Stage_graphe_filtre_sol ==
    /\ calls = <<>>
    /\ args[1] = "graph"
    /\ calls' = <<"graphe_filtre_sol">>
    /\ ret' = graphe_filtre_sol(args[2], 2)
    /\ UNCHANGED <<merge_VALID_SIZES, solver_VALID_SIZES, args>>

\* main.py:372-388; the three functions read G (coordinates and classes) and
\* return G.copy() or a graph built anew
Stage_consolidation ==
    /\ calls = <<>>
    /\ args[1] = "graph"
    /\ \/ /\ calls' = <<"ajouter_sol_coque_pillier">>
          /\ ret' = ajouter_sol_coque_pillier(args[2], 2, 6, 2, 4, 2)
       \/ /\ calls' = <<"ajouter_sol_coque">>
          /\ ret' = ajouter_sol_coque(args[2], 2, 6, 2)
       \/ /\ calls' = <<"ajouter_sol_rempli">>
          /\ ret' = ajouter_sol_rempli(args[2], 2, 6, 2)
    /\ UNCHANGED <<merge_VALID_SIZES, solver_VALID_SIZES, args>>

\* main.py:391-393 with PARAM_REMPLISSAGE (main.py:159-161)
Stage_remplir_trous_verticaux ==
    /\ calls = <<>>
    /\ args[1] = "graph"
    /\ calls' = <<"remplir_trous_verticaux">>
    /\ LET o == remplir_objets(args[2], {6})
       IN  args' = <<"graph", o.arg>> /\ ret' = o.ret
    /\ UNCHANGED <<merge_VALID_SIZES, solver_VALID_SIZES>>

\* main.py:396
Stage_graphe_voxel ==
    /\ calls = <<>>
    /\ args[1] = "graph"
    /\ calls' = <<"graphe_voxel">>
    /\ ret' = graphe_voxel(args[2])
    /\ UNCHANGED <<merge_VALID_SIZES, solver_VALID_SIZES, args>>

\* solver.py:298
Stage_optimize_layer_smart ==
    /\ calls = <<>>
    /\ args[1] = "layer"
    /\ calls' = <<"optimize_layer_smart">>
    /\ LET o == optimize_layer_smart_objets(args[2], args[3])
       IN  args' = <<"layer", o.arg, args[3]>> /\ ret' = o.ret
    /\ UNCHANGED <<merge_VALID_SIZES, solver_VALID_SIZES>>

\* solver.py:301
Stage_optimize_layer_2d_side ==
    /\ calls = <<>>
    /\ args[1] = "layer"
    /\ calls' = <<"optimize_layer_2d_side">>
    /\ LET o == optimize_layer_2d_side_objets(args[2], args[3])
       IN  args' = <<"layer", o.arg, args[3]>> /\ ret' = o.ret
    /\ UNCHANGED <<merge_VALID_SIZES, solver_VALID_SIZES>>

NextStages ==
    \/ Call_voxel_graphe
    \/ Stage_corriger
    \/ Stage_graphe_filtre_classes
    \/ Stage_graphe_filtre_sol
    \/ Stage_consolidation
    \/ Stage_remplir_trous_verticaux
    \/ Stage_graphe_voxel
    \/ Call_solve_greedy_stripe
    \/ Stage_optimize_layer_smart
    \/ Stage_optimize_layer_2d_side

SpecStages == InitStages /\ [][NextStages]_vars

(***************************************************************************)
(* Claims C12 and C15                                                      *)
(***************************************************************************)
GraphTransforms ==
    {<<"corriger_voxels_non_classes_iteratif">>, <<"graphe_filtre_classes">>,
     <<"graphe_filtre_sol">>, <<"ajouter_sol_coque_pillier">>,
     <<"ajouter_sol_coque">>, <<"ajouter_sol_rempli">>,
     <<"remplir_trous_verticaux">>}

AllEmptyGrid == args[1] = "grid" /\ \A c \in DOMAIN args[2].counts : args[2].counts[c] = 0
EmptyGraphInput == args[1] = "graph" /\ Len(args[2].nodes) = 0

\* C12: every structural graph operation (voxel_graphe, the reclassification,
\* the two filters, the three ground consolidations, remplir_trous_verticaux,
\* graphe_voxel), given an empty graph or an all-empty grid, returns an empty
\* or unchanged result and raises no exception; the three consolidations
\* return an unchanged copy of a graph with zero nodes.
C12_EmptyInEmptyOut ==
    /\ (calls = <<"voxel_graphe">> /\ AllEmptyGrid) => ret = EmptyGraph
    /\ (calls \in GraphTransforms /\ EmptyGraphInput) => ret = args[2]
    /\ (calls = <<"graphe_voxel">> /\ EmptyGraphInput) => ~ret.raised

\* The bricks of `after` are those of `before`, each as often
IsPermutation(before, after) ==
    /\ Len(before) = Len(after)
    /\ \A b \in Range(before) \cup Range(after) :
          Cardinality({i \in 1..Len(before) : before[i] = b})
            = Cardinality({i \in 1..Len(after) : after[i] = b})

IsSorted(bricks, order) ==
    \A i \in 1..(Len(bricks) - 1) :
        ~KeyLess(SortKey(bricks[i + 1], order), SortKey(bricks[i], order))

\* A call on the input of the run
FirstCall == calls = <<>> /\ calls' # <<>>

\* C15 (as stated): every pipeline operation leaves its input unchanged and
\* returns a new value: each graph transform leaves the nodes, edges and node
\* attributes of its input graph as they were, and solve_greedy_stripe,
\* optimize_layer_smart and optimize_layer_2d_side leave the order of the brick
\* list they receive and the fields of its bricks as they were.
C15_InputsUnchanged ==
    [][FirstCall => args' = args]_vars

\* C15 (amended): each graph transform leaves its input graph as it was and
\* solve_greedy_stripe leaves the list it receives as it was; optimize_layer_smart
\* and optimize_layer_2d_side leave the bricks of the list they receive as they
\* were but reorder the list: sorted by (y, x) for the first pass on an "H"
\* layer and the second pass on a "V" layer, by (x, y) otherwise.
C15_InputsUnchangedOrSorted ==
    [][FirstCall =>
          IF calls' \in {<<"optimize_layer_smart">>, <<"optimize_layer_2d_side">>}
          THEN /\ args'[1] = args[1] /\ args'[3] = args[3]
               /\ IsPermutation(args[2], args'[2])
               /\ IsSorted(args'[2],
                      IF (calls' = <<"optimize_layer_smart">>) = (args[3] = "H")
                      THEN "yx" ELSE "xy")
          ELSE args' = args]_vars

\* The first pass ran on a "V" layer whose list is left in (x, y) order, which
\* no brick factory list of two rows is; and a reclassification returned a
\* graph that differs from the one it was handed
C15_Witness ==
    \/ /\ calls = <<"optimize_layer_smart">>
       /\ args[3] = "V"
       /\ Len(args[2]) >= 3
       /\ args[2][1].x = args[2][2].x /\ args[2][1].y < args[2][2].y
       /\ args[2][3].x > args[2][1].x
       /\ Len(ret) < Len(args[2])
    \/ /\ calls = <<"corriger_voxels_non_classes_iteratif">>
       /\ ret # args[2]
       /\ \E i \in 1..Len(args[2].nodes) : args[2].nodes[i].class_maj = 1

(***************************************************************************)
(* Claim C16                                                               *)
(***************************************************************************)
\* The two loops of the consolidation that ran, on its input graph
Loops == propagation(SolInput, 2, 6, 2)

Consolidated16 == Consolidated /\ Len(SolInput.nodes) > 0

\* C16 (as stated): for every input graph the two fixed-point loops of ground
\* consolidation (outward propagation, then under-building height inference)
\* terminate, each within a number of passes no larger than the larger of the
\* dense grid's extents, max(nx, ny, nz).
C16_PassesWithinLargestExtent ==
    Consolidated16 =>
        LET p == Loops
        IN  /\ p.passes_ext <= SetMax({p.shape[1], p.shape[2], p.shape[3]})
            /\ p.passes_int <= SetMax({p.shape[1], p.shape[2], p.shape[3]})

\* C16 (amended): both loops terminate, each within nx * ny + 1 passes (one per
\* column of the dense grid, and the pass that finds nothing to change); when
\* the second loop stops, no building column without height has a neighbour
\* with a height.
C16_PassesWithinColumns ==
    Consolidated16 =>
        LET p == Loops
        IN  /\ p.passes_ext >= 1 /\ p.passes_ext <= p.shape[1] * p.shape[2] + 1
            /\ p.passes_int >= 1 /\ p.passes_int <= p.shape[1] * p.shape[2] + 1
            /\ \A col \in p.interior_mask :
                  p.z_height_map[col] = 0 =>
                      \A d \in voisins8 : p.z_height_map[roll(p.shape, col, d)] = 0

\* The winding building: the height found at (0, 0) travels one building column
\* per pass, seven passes in a grid whose largest extent is five
C16_Witness ==
    /\ Consolidated16
    /\ args[2] = Serpent
    /\ Loops.passes_int = 7
    /\ Loops.shape = <<5, 4, 2>>


(***************************************************************************)
(* main.py: the orchestrator.  `args` holds the parameters of the run       *)
(* (main.py:67-167) and what the input file yields, `calls` the functions   *)
(* called so far, `ret` the locals of the main block, the files written,    *)
(* the tagged messages printed, the line the run stands at and how it       *)
(* ended ("" while it runs).  Lengths are in fifths of a metre, so that     *)
(* TAILLE_VOXEL = 1.0 is 5 and the layer height 1.0 * LDRAW_RATIO is 6.     *)
(***************************************************************************)
TAILLE_VOXEL == 5
HAUTEUR_COUCHE == 6
DENSITE_MIN == 1
VISUALISATION == "COULEUR"
DEFAULT_GRAY == 16

\* main.py:197-210 (MODE_COULEUR = "STANDARD") read by
\* LIDAR_TO_LEGO_COLORS.get(c_lidar, DEFAULT_GRAY) at brique_merge.py:129
LIDAR_TO_LEGO_COLORS_get(c_lidar) ==
    CASE c_lidar = 1 -> 0
      [] c_lidar = 2 -> 6
      [] c_lidar = 3 -> 10
      [] c_lidar = 4 -> 2
      [] c_lidar = 5 -> 288
      [] c_lidar = 6 -> 7
      [] c_lidar = 9 -> 1
      [] c_lidar = 17 -> 4
      [] c_lidar = 64 -> 14
      [] c_lidar = 66 -> 15
      [] c_lidar = 67 -> 8
      [] OTHER -> DEFAULT_GRAY

\* brique_merge.py:110-144
bricks_from_numpy(counts, class_maj, visualisation) ==
    unit_bricks({c \in DOMAIN counts : counts[c] > 0},
                [c \in DOMAIN counts |->
                    IF visualisation = "COULEUR"
                    THEN LIDAR_TO_LEGO_COLORS_get(class_maj[c])
                    ELSE DEFAULT_GRAY])

\* LIDAR_couches.py:280-289
LIDAR_couches_LEGO_LDRAW(lidar_numpy, taille_xy, hauteur_couche, densite_min) ==
    LIDAR_couches(lidar_numpy, taille_xy, hauteur_couche, densite_min)

\* main.py:222-227
exporter_modele(counts, class_maj) ==
    IF VISUALISATION = "COULEUR" THEN voxel_LDRAW_classif(counts, class_maj)
    ELSE voxel_LDRAW(counts)

\* The points a load can return: two places in neighbouring voxel columns of
\* the same layer, and three classes (ground, building, and 65, which the
\* class filter drops)
MaxSample == 2
SamplePositions == <<<<0, 0, 0>>, <<6, 1, 2>>>>
SampleClasses == <<2, 6, 65>>

SamplePoint(k) ==
    LET pos == SamplePositions[((k - 1) \div Len(SampleClasses)) + 1]
    IN  [x |-> pos[1], y |-> pos[2], z |-> pos[3],
         classification |-> SampleClasses[((k - 1) % Len(SampleClasses)) + 1]]

MODES_IMPORT == {"AFFICHAGE_INFO_LIDAR", "COMPLET",
                 "ECHANTILLON_CARRE_ALEATOIRE", "ECHANTILLON_RECTANGLE"}

\* The parameters of main.py:67-167 that choose the stages
Parametres ==
    [MODE_IMPORT : MODES_IMPORT,
     MODE_WORKFLOW : {"ETAPE_PAR_ETAPE", "DIRECT"},
     ACTIVER_CORRECTION_NC : BOOLEAN,
     ACTIVER_FILTRE_CLASSES : BOOLEAN,
     ACTIVER_FILTRE_SOL : BOOLEAN,
     TYPE_CONSOLIDATION : {"AUCUN", "PILIERS", "COQUE", "REMPLI"},
     ACTIVER_REMPLISSAGE_MURS : BOOLEAN,
     CALCULER_COUT_STRUCTUREL : BOOLEAN]

\* The locals before main.py:239
Locals ==
    [ligne |-> 239, fin |-> "", stdout |-> <<>>, fichiers |-> <<>>,
     lidar_data |-> <<>>, counts |-> <<>>, class_maj |-> <<>>, G |-> EmptyGraph,
     raw_bricks |-> <<>>, final_bricks |-> <<>>, c_init |-> <<>>, c_final |-> <<>>]

Param == args[2]

InitMain ==
    /\ merge_VALID_SIZES = DefaultSizes
    /\ solver_VALID_SIZES = DefaultSizes
    /\ calls = <<>>
    /\ ret = Locals
    /\ \E p \in Parametres, existe \in BOOLEAN, n \in 0..MaxSample :
          \E kinds \in [1..n -> 1..(Len(SamplePositions) * Len(SampleClasses))] :
              /\ \A i \in 1..(n - 1) : kinds[i] <= kinds[i + 1]
              /\ args = <<"main", p, existe, [i \in 1..n |-> SamplePoint(kinds[i])]>>

\* args[3]: the input file exists; args[4]: the points the load returns
Running(ligne) == ret.fin = "" /\ ret.ligne = ligne
Frame == UNCHANGED <<merge_VALID_SIZES, solver_VALID_SIZES, args>>


\* main.py:239-272: the palette and the inventory are injected, the output
\* folders made, and the run stops if the input file is missing
Main_initialisation ==
    /\ Running(239)
    /\ merge_VALID_SIZES' = INVENTAIRE_BRIQUES
    /\ calls' = calls \o <<"configurer_couleurs", "configurer_inventaire">>
    /\ ret' = IF args[3] THEN [ret EXCEPT !.ligne = 279]
              ELSE [ret EXCEPT !.stdout = Append(@, "[ERREUR]"),
                               !.fin = "sys.exit(1)"]
    /\ UNCHANGED <<solver_VALID_SIZES, args>>

\* main.py:279-289
Main_affichage_info_sans_exit ==
    /\ Running(279)
    /\ Param.MODE_IMPORT = "AFFICHAGE_INFO_LIDAR"
    /\ calls' = calls \o <<"laz_to_las", "afficher_header",
                           "afficher_coordonnees_systeme", "afficher_bornes_zone",
                           "afficher_infos_fichier", "afficher_conversion",
                           "afficher_attributs_points">>
    /\ ret' = [ret EXCEPT !.stdout = Append(@, "Nombre total de points"),
                          !.ligne = 318]
    /\ Frame

Main_affichage_info ==
    /\ Running(279)
    /\ Param.MODE_IMPORT = "AFFICHAGE_INFO_LIDAR"
    /\ calls' = calls \o <<"laz_to_las", "afficher_header",
                           "afficher_coordonnees_systeme", "afficher_bornes_zone",
                           "afficher_infos_fichier", "afficher_conversion",
                           "afficher_attributs_points">>
    /\ ret' = [ret EXCEPT !.stdout = Append(@, "Nombre total de points"),
                          !.fin = "sys.exit(0)"]
    /\ Frame

\* main.py:291-316: the three loading modes
Main_chargement ==
    /\ Running(279)
    /\ \/ /\ Param.MODE_IMPORT = "COMPLET"
          /\ calls' = calls \o <<"laz_to_las", "LIDAR_numpy_utile">>
       \/ /\ Param.MODE_IMPORT = "ECHANTILLON_CARRE_ALEATOIRE"
          /\ calls' = Append(calls, "LIDAR_carre_aleatoire")
       \/ /\ Param.MODE_IMPORT = "ECHANTILLON_RECTANGLE"
          /\ calls' = Append(calls, "LIDAR_rectangle")
    /\ ret' = [ret EXCEPT !.lidar_data = args[4], !.ligne = 318]
    /\ Frame

\* main.py:318-321
Main_controle_points ==
    /\ Running(318)
    /\ ret' = IF Len(ret.lidar_data) = 0
              THEN [ret EXCEPT !.stdout = Append(@, "[STOP]"), !.fin = "sys.exit(1)"]
              ELSE [ret EXCEPT !.ligne = 331]
    /\ UNCHANGED calls
    /\ Frame

\* main.py:331-336; an exception of the voxelizer is caught nowhere
Main_voxelisation ==
    /\ Running(331)
    /\ calls' = Append(calls, "LIDAR_couches_LEGO_LDRAW")
    /\ LET r == LIDAR_couches_LEGO_LDRAW(ret.lidar_data, TAILLE_VOXEL,
                                         HAUTEUR_COUCHE, DENSITE_MIN)
       IN  ret' = IF r.raised THEN [ret EXCEPT !.fin = "ValueError"]
                  ELSE [ret EXCEPT !.counts = r.counts, !.class_maj = r.class_maj,
                                   !.ligne = 339]
    /\ Frame

\* main.py:339-342
Main_export_brut ==
    /\ Running(339)
    /\ IF Param.MODE_WORKFLOW = "ETAPE_PAR_ETAPE"
       THEN /\ calls' = Append(calls, "exporter_modele")
            /\ ret' = [ret EXCEPT
                         !.fichiers = Append(@, [nom |-> "01_BRUT",
                             lignes |-> exporter_modele(ret.counts, ret.class_maj)]),
                         !.ligne = 354]
       ELSE /\ calls' = calls
            /\ ret' = [ret EXCEPT !.ligne = 354]
    /\ Frame

\* main.py:354
Main_voxel_graphe ==
    /\ Running(354)
    /\ calls' = Append(calls, "voxel_graphe")
    /\ ret' = [ret EXCEPT !.G = voxel_graphe(ret.counts, ret.class_maj),
                          !.ligne = 357]
    /\ Frame

\* main.py:357-359 with PARAM_CORRECTION (main.py:126-131)
Main_correction ==
    /\ Running(357)
    /\ IF Param.ACTIVER_CORRECTION_NC
       THEN /\ calls' = Append(calls, "corriger_voxels_non_classes_iteratif")
            /\ ret' = [ret EXCEPT
                         !.G = corriger_voxels_non_classes_iteratif(ret.G, 1, {6}, 5),
                         !.ligne = 362]
       ELSE /\ calls' = calls
            /\ ret' = [ret EXCEPT !.ligne = 362]
    /\ Frame

\* main.py:362-364
Main_filtre_classes ==
    /\ Running(362)
    /\ IF Param.ACTIVER_FILTRE_CLASSES
       THEN /\ calls' = Append(calls, "graphe_filtre_classes")
            /\ ret' = [ret EXCEPT !.G = graphe_filtre_classes(ret.G, classes_gardees),
                                  !.ligne = 367]
       ELSE /\ calls' = calls
            /\ ret' = [ret EXCEPT !.ligne = 367]
    /\ Frame

\* main.py:367-369
Main_filtre_sol ==
    /\ Running(367)
    /\ IF Param.ACTIVER_FILTRE_SOL
       THEN /\ calls' = Append(calls, "graphe_filtre_sol")
            /\ ret' = [ret EXCEPT !.G = graphe_filtre_sol(ret.G, 2), !.ligne = 372]
       ELSE /\ calls' = calls
            /\ ret' = [ret EXCEPT !.ligne = 372]
    /\ Frame

\* main.py:372-388 with PARAM_CONSOLIDATION (main.py:149-155)
Main_consolidation ==
    /\ Running(372)
    /\ \/ /\ Param.TYPE_CONSOLIDATION = "AUCUN"
          /\ calls' = calls
          /\ ret' = [ret EXCEPT !.ligne = 391]
       \/ /\ Param.TYPE_CONSOLIDATION = "PILIERS"
          /\ calls' = Append(calls, "ajouter_sol_coque_pillier")
          /\ ret' = [ret EXCEPT !.G = ajouter_sol_coque_pillier(ret.G, 2, 6, 2, 4, 2),
                                !.ligne = 391]
       \/ /\ Param.TYPE_CONSOLIDATION = "COQUE"
          /\ calls' = Append(calls, "ajouter_sol_coque")
          /\ ret' = [ret EXCEPT !.G = ajouter_sol_coque(ret.G, 2, 6, 2), !.ligne = 391]
       \/ /\ Param.TYPE_CONSOLIDATION = "REMPLI"
          /\ calls' = Append(calls, "ajouter_sol_rempli")
          /\ ret' = [ret EXCEPT !.G = ajouter_sol_rempli(ret.G, 2, 6, 2), !.ligne = 391]
    /\ Frame

\* main.py:391-393 with PARAM_REMPLISSAGE (main.py:159-161)
Main_remplissage_murs ==
    /\ Running(391)
    /\ IF Param.ACTIVER_REMPLISSAGE_MURS
       THEN /\ calls' = Append(calls, "remplir_trous_verticaux")
            /\ ret' = [ret EXCEPT !.G = remplir_trous_verticaux(ret.G, {6}),
                                  !.ligne = 396]
       ELSE /\ calls' = calls
            /\ ret' = [ret EXCEPT !.ligne = 396]
    /\ Frame

\* main.py:396; the ValueError of graphe_voxel on a graph without nodes is
\* caught nowhere
Main_graphe_voxel ==
    /\ Running(396)
    /\ calls' = Append(calls, "graphe_voxel")
    /\ LET r == graphe_voxel(ret.G)
       IN  ret' = IF r.raised THEN [ret EXCEPT !.fin = "ValueError"]
                  ELSE [ret EXCEPT !.counts = r.counts, !.class_maj = r.class_maj,
                                   !.ligne = 399]
    /\ Frame

\* main.py:399-402
Main_export_structure ==
    /\ Running(399)
    /\ IF Param.MODE_WORKFLOW = "ETAPE_PAR_ETAPE"
       THEN /\ calls' = Append(calls, "exporter_modele")
            /\ ret' = [ret EXCEPT
                         !.fichiers = Append(@, [nom |-> "02_STRUCTURE",
                             lignes |-> exporter_modele(ret.counts, ret.class_maj)]),
                         !.ligne = 415]
       ELSE /\ calls' = calls
            /\ ret' = [ret EXCEPT !.ligne = 415]
    /\ Frame

\* main.py:415-416
Main_bricks_from_numpy ==
    /\ Running(415)
    /\ calls' = Append(calls, "bricks_from_numpy")
    /\ ret' = [ret EXCEPT
                 !.raw_bricks = bricks_from_numpy(ret.counts, ret.class_maj,
                                                  VISUALISATION),
                 !.ligne = 419]
    /\ Frame

\* main.py:419-421
Main_cout_initial ==
    /\ Running(419)
    /\ IF Param.CALCULER_COUT_STRUCTUREL
       THEN /\ calls' = Append(calls, "total_cost_function")
            /\ ret' = [ret EXCEPT !.c_init = total_cost_function(ret.raw_bricks),
                                  !.ligne = 425]
       ELSE /\ calls' = calls
            /\ ret' = [ret EXCEPT !.ligne = 425]
    /\ Frame

\* main.py:425
Main_solve_greedy_stripe ==
    /\ Running(425)
    /\ calls' = Append(calls, "solve_greedy_stripe")
    /\ LET r == solve_greedy_stripe(ret.raw_bricks)
       IN  ret' = IF r.raised THEN [ret EXCEPT !.fin = "ZeroDivisionError"]
                  ELSE [ret EXCEPT !.final_bricks = r.final_bricks, !.ligne = 428]
    /\ Frame

\* main.py:428-432
Main_cout_final ==
    /\ Running(428)
    /\ IF Param.CALCULER_COUT_STRUCTUREL
       THEN /\ calls' = Append(calls, "total_cost_function")
            /\ ret' = [ret EXCEPT !.c_final = total_cost_function(ret.final_bricks),
                                  !.ligne = 436]
       ELSE /\ calls' = calls
            /\ ret' = [ret EXCEPT !.ligne = 436]
    /\ Frame

\* main.py:436
Main_print_brick_stats ==
    /\ Running(436)
    /\ calls' = Append(calls, "print_brick_stats")
    /\ ret' = [ret EXCEPT !.stdout = Append(@, "INVENTAIRE FINAL (BOM)"),
                          !.ligne = 439]
    /\ Frame

\* main.py:439-461: the final export, then the closing messages
Main_export_final ==
    /\ Running(439)
    /\ calls' = Append(calls, "export_to_ldr")
    /\ ret' = [ret EXCEPT
                 !.fichiers = Append(@, [nom |-> "03_FINAL",
                     lignes |-> export_to_ldr(ret.final_bricks, "03_FINAL")]),
                 !.stdout = Append(@, "=== TRAITEMENT TERMINE ==="),
                 !.ligne = 461,
                 !.fin = "fin du script"]
    /\ Frame

NextMain ==
    \/ Main_initialisation
    \/ Main_affichage_info
    \/ Main_chargement
    \/ Main_controle_points
    \/ Main_voxelisation
    \/ Main_export_brut
    \/ Main_voxel_graphe
    \/ Main_correction
    \/ Main_filtre_classes
    \/ Main_filtre_sol
    \/ Main_consolidation
    \/ Main_remplissage_murs
    \/ Main_graphe_voxel
    \/ Main_export_structure
    \/ Main_bricks_from_numpy
    \/ Main_cout_initial
    \/ Main_solve_greedy_stripe
    \/ Main_cout_final
    \/ Main_print_brick_stats
    \/ Main_export_final

SpecMain == InitMain /\ [][NextMain]_vars


(***************************************************************************)
(* Claims C11 and C17 (SpecMain)                                            *)
(***************************************************************************)
Called(f) == \E i \in 1..Len(calls) : calls[i] = f
Printed(m) == \E i \in 1..Len(ret.stdout) : ret.stdout[i] = m
Ended == args[1] = "main" /\ ret.fin # ""

Loaders == {"LIDAR_numpy_utile", "LIDAR_carre_aleatoire", "LIDAR_rectangle"}

\* the load was made and returned no point
SampledNothing == (\E f \in Loaders : Called(f)) /\ Len(ret.lidar_data) = 0

\* a filter ran and the graph has no node left (the graph built from the
\* voxel grid always has one, and no other stage removes the last node)
FilteredToNothing ==
    /\ Called("graphe_filtre_classes") \/ Called("graphe_filtre_sol")
    /\ Len(ret.G.nodes) = 0

EmptyResult ==
    /\ ret.fin = "sys.exit(1)"
    /\ Printed("[STOP]")
    /\ ~Called("bricks_from_numpy")
    /\ ~Called("solve_greedy_stripe")
    /\ ~Called("export_to_ldr")

\* C11: a run whose load returned no point, or in which the class filter or
\* the ground-noise filter left no voxel in the graph, ends by printing the
\* orchestrator's diagnostic and sys.exit(1), with no call of the brick
\* factory, the solver or the final export
C11_NothingLeftEndsAsEmptyResult ==
    (Ended /\ (SampledNothing \/ FilteredToNothing)) => EmptyResult

\* The place of the i-th call in the claimed order of stages; 0 for a call
\* that is none of them
StageRank(i) ==
    LET f == calls[i]
    IN  CASE f \in Loaders -> 1
          [] f = "LIDAR_couches_LEGO_LDRAW" -> 2
          [] f = "voxel_graphe" -> 3
          [] f = "corriger_voxels_non_classes_iteratif" -> 4
          [] f = "graphe_filtre_classes" -> 5
          [] f = "graphe_filtre_sol" -> 6
          [] f \in Consolidations -> 7
          [] f = "remplir_trous_verticaux" -> 8
          [] f = "graphe_voxel" -> 9
          [] f = "bricks_from_numpy" -> 10
          [] f = "total_cost_function" ->
                 IF \E j \in 1..(i - 1) : calls[j] = "solve_greedy_stripe"
                 THEN 13 ELSE 11
          [] f = "solve_greedy_stripe" -> 12
          [] f = "print_brick_stats" -> 14
          [] f = "export_to_ldr" -> 15
          [] OTHER -> 0

StagesRun == {StageRank(i) : i \in 1..Len(calls)} \ {0}

\* The stages the parameters enable
StagesEnabled ==
    IF Param.MODE_IMPORT = "AFFICHAGE_INFO_LIDAR" THEN {}
    ELSE {1, 2, 3, 9, 10, 12, 14, 15}
         \cup (IF Param.ACTIVER_CORRECTION_NC THEN {4} ELSE {})
         \cup (IF Param.ACTIVER_FILTRE_CLASSES THEN {5} ELSE {})
         \cup (IF Param.ACTIVER_FILTRE_SOL THEN {6} ELSE {})
         \cup (IF Param.TYPE_CONSOLIDATION # "AUCUN" THEN {7} ELSE {})
         \cup (IF Param.ACTIVER_REMPLISSAGE_MURS THEN {8} ELSE {})
         \cup (IF Param.CALCULER_COUT_STRUCTUREL THEN {11, 13} ELSE {})

\* C17: in every run the stages called so far are in the order load, voxelize,
\* build graph, reclassify, class filter, ground filter, ground consolidation,
\* wall-gap filling, graph-to-grid, brick factory, cost (before), solver,
\* cost (after), bill of materials, final export, each at most once and only
\* if enabled, and a run that reaches its last line has called every enabled
\* one; in info-display mode no stage is called and no .ldr file written, and
\* the run that found its input file ends with sys.exit(0) after the displays
C17_StagesInFixedOrder ==
    args[1] = "main" =>
        /\ \A i, j \in 1..Len(calls) :
              (i < j /\ StageRank(i) > 0 /\ StageRank(j) > 0)
                  => StageRank(i) < StageRank(j)
        /\ StagesRun \subseteq StagesEnabled
        /\ ret.fin = "fin du script" => StagesRun = StagesEnabled
        /\ Param.MODE_IMPORT = "AFFICHAGE_INFO_LIDAR" =>
              /\ ret.fichiers = <<>>
              /\ (Ended /\ args[3]) =>
                    /\ ret.fin = "sys.exit(0)"
                    /\ Called("afficher_attributs_points")
                    /\ Printed("Nombre total de points")

\* a step-by-step run with every stage enabled has reached its last line:
\* fifteen stages and three files
C17_Witness ==
    /\ args[1] = "main"
    /\ ret.fin = "fin du script"
    /\ StagesRun = 1..15
    /\ Len(ret.fichiers) = 3
    /\ Len(ret.final_bricks) < Len(ret.raw_bricks)


(***************************************************************************)
(* Claim C30 (SpecSolver)                                                   *)
(***************************************************************************)
\* C30: solve_greedy_stripe applied to an empty brick list returns an empty
\* list and raises no error
C30_EmptyListReturnsEmpty ==
    (calls = <<"solve_greedy_stripe">> /\ args[1] = "list" /\ Len(args[2]) = 0)
        => (~ret.raised /\ ret.final_bricks = <<>>)


(***************************************************************************)
(* Claim C21 (SpecSol)                                                      *)
(***************************************************************************)
\* the columns inside the grid at horizontal distance 1 of col
Adjacent(shape, col) ==
    {c \in Columns(shape) :
        c # col /\ Abs(c[1] - col[1]) <= 1 /\ Abs(c[2] - col[2]) <= 1}

\* One pass of the outward propagation, from the ground columns `sol` and
\* their heights to the grid and the heights after it: a column that receives
\* ground had none, is no building column, has n_min = 2 adjacent columns with
\* ground, and receives the largest of their heights
PassAsClaimed(sol, z_height_map, candidate, grid_after, z_after, shape, interior_mask) ==
    \A col \in candidate :
        column_any(grid_after, shape, col, 2) =>
            LET adj == Adjacent(shape, col) \cap sol
            IN  /\ col \notin sol
                /\ col \notin interior_mask
                /\ Cardinality(adj) >= 2
                /\ z_after[col] = SetMax({z_height_map[c] : c \in adj})

\* Every pass of the outward propagation from the state given is as claimed
RECURSIVE ExtPassesAsClaimed(_, _, _, _, _)
ExtPassesAsClaimed(grid, z_height_map, processed_mask, shape, interior_mask) ==
    LET pass == passe_ext(grid, z_height_map, processed_mask, shape, interior_mask, 2, 2)
        candidate == pass.candidate
    IN  \/ candidate = {}
        \/ /\ PassAsClaimed({col \in Columns(shape) : column_any(grid, shape, col, 2)},
                             z_height_map, candidate, pass.grid, pass.z_height_map,
                             shape, interior_mask)
           /\ ExtPassesAsClaimed(pass.grid, pass.z_height_map,
                                 processed_mask \cup candidate, shape, interior_mask)

\* The outward propagation of a consolidation of G (class_sol 2, class_bat 6),
\* which starts from the dense grid after the initial fill, is as claimed at
\* every pass
ExtAsClaimed(G) ==
    LET dense == dense_grid(G)
        first == initial_fill(dense.grid, dense.shape, 2)
        interior_mask == {col \in Columns(dense.shape) :
                            column_any(dense.grid, dense.shape, col, 6)}
    IN  /\ Len(dense.shape) = 3
        /\ DOMAIN first.z_height_map = Columns(dense.shape)
        /\ ExtPassesAsClaimed(first.grid, first.z_height_map, {}, dense.shape,
                              interior_mask)

\* C21: in the outward propagation of a ground consolidation a column receives
\* ground only if it has no ground, is not a building-footprint column and at
\* least n_min of its grid-adjacent columns (inside the grid, at horizontal
\* distance 1, diagonals included, opposite edges not adjacent) have ground,
\* and the height it receives is the largest ground height among them
C21_GroundOnlyFromAdjacentColumns ==
    (Consolidated /\ Len(ret.nodes) > 0) => ExtAsClaimed(SolInput)


(***************************************************************************)
(* Claims C23-C24 (SpecStages)                                              *)
(***************************************************************************)
WallsFilled == calls = <<"remplir_trous_verticaux">> /\ args[1] = "graph"

\* the heights of the building-class nodes of G in the column col
BuildingHeights(G, col) ==
    {nd.coord[3] : nd \in {m \in Range(G.nodes) :
        <<m.coord[1], m.coord[2]>> = col /\ m.class_maj = 6}}

\* The positions the claim fills, each with the class it is given: between two
\* consecutive building-class nodes z1 < z2 of a column with z2 > z1 + 1, every
\* z in between where G has no node (the upper node is of class 6)
MissingPositions(G) ==
    LET cols == {<<m.coord[1], m.coord[2]>> : m \in Range(G.nodes)}
        top  == SetMax({0} \cup {m.coord[3] : m \in Range(G.nodes)})
        Gap(col, z) ==
            /\ ~HasCoord(G, <<col[1], col[2], z>>)
            /\ \E z1, z2 \in BuildingHeights(G, col) :
                  /\ z1 < z /\ z < z2
                  /\ \A b \in BuildingHeights(G, col) : b <= z1 \/ b >= z2
    IN  {[coord |-> <<p[1][1], p[1][2], p[2]>>, class_maj |-> 6] :
            p \in {q \in cols \X (0..top) : Gap(q[1], q[2])}}

NewNodes(G, R) == Range(R.nodes) \ Range(G.nodes)

\* C23: remplir_trous_verticaux creates new nodes exactly at the missing
\* positions (in every column, between two consecutive building-class nodes
\* z1 < z2 with z2 > z1 + 1, at each z in between where the input has no node,
\* with the class of the upper node, and nowhere else), keeps every input
\* node, and returns no two nodes with the same coord
C23_NewNodesExactlyAtMissing ==
    WallsFilled =>
        /\ Range(args[2].nodes) \subseteq Range(ret.nodes)
        /\ {[coord |-> nd.coord, class_maj |-> nd.class_maj] :
                nd \in NewNodes(args[2], ret)} = MissingPositions(args[2])
        /\ \A i, j \in 1..Len(ret.nodes) :
               ret.nodes[i].coord = ret.nodes[j].coord => i = j

\* C24: in the graph returned by remplir_trous_verticaux every new node at
\* (x, y, z) has an edge to the node at (x, y, z - 1) and to the node at
\* (x, y, z + 1) whenever the result holds such a node, be it an input node or
\* one created by the same call
C24_NewNodesJoinedVertically ==
    WallsFilled =>
        \A nd \in NewNodes(args[2], ret), m \in Range(ret.nodes) :
            (/\ m.coord[1] = nd.coord[1]
             /\ m.coord[2] = nd.coord[2]
             /\ Abs(m.coord[3] - nd.coord[3]) = 1) => {nd.id, m.id} \in ret.edges


(***************************************************************************)
(* Claim C22 (SpecSol)                                                      *)
(***************************************************************************)
\* the voxels of a graph: coord and class of every node
NodeSet(G) == {<<nd.coord, nd.class_maj>> : nd \in Range(G.nodes)}

\* coord lies on no face of the bounding box of the graph G
OffBoundary(G, coord) ==
    \A a \in 1..3 : /\ coord[a] # SetMin({nd.coord[a] : nd \in Range(G.nodes)})
                    /\ coord[a] # SetMax({nd.coord[a] : nd \in Range(G.nodes)})

\* the ground voxels of the filled graph R, off the faces of the dense grid of
\* the input G, whose six axis-neighbours are ground in R
InternalGround(G, R) ==
    {v \in NodeSet(R) : /\ v[2] = 2
                        /\ OffBoundary(G, v[1])
                        /\ SixNeighboursGround(R, v[1])}

Shell == ajouter_sol_coque(SolInput, 2, 6, 2)

Pillars == ajouter_sol_coque_pillier(SolInput, 2, 6, 2, 4, 2)

\* C22: on the same input and parameters, the COQUE output is the REMPLI
\* output minus exactly the ground voxels off the dense grid's boundary whose
\* six axis-neighbours are all ground in the filled grid, the PILIERS output
\* is the REMPLI output minus the same voxels except those in pillar columns,
\* and so the node sets satisfy COQUE \subseteq PILIERS \subseteq REMPLI
C22_ShellAndPillarsRefineFilled ==
    (Consolidated /\ calls[2] # "ajouter_sol_rempli") =>
        LET G == SolInput
            rempli == NodeSet(Filled)
            internal == InternalGround(G, Filled)
            outside == {v \in internal : ~InPillar(DenseColumn(G, v[1]))}
        IN  /\ rempli = rempli /\ internal = internal /\ outside = outside
            /\ calls[2] = "ajouter_sol_coque" =>
                   /\ NodeSet(ret) = rempli \ internal
                   /\ NodeSet(ret) \subseteq NodeSet(Pillars)
            /\ calls[2] = "ajouter_sol_coque_pillier" =>
                   /\ NodeSet(ret) = rempli \ outside
                   /\ NodeSet(ret) \subseteq rempli

\* the pillar lattice keeps an internal ground voxel that the shell erosion
\* removes, and removes another: the three outputs are strictly nested
C22_Witness ==
    /\ calls = <<"voxel_graphe", "ajouter_sol_coque_pillier">>
    /\ NodeSet(Shell) \subseteq NodeSet(ret)
    /\ NodeSet(Shell) # NodeSet(ret)
    /\ NodeSet(ret) \subseteq NodeSet(Filled)
    /\ NodeSet(ret) # NodeSet(Filled)


(***************************************************************************)
(* SpecCorr: corriger_voxels_non_classes_iteratif round by round, on the    *)
(* graphs of the grids of StageShape with their nodes in the order of       *)
(* voxel_graphe or in the reverse order, and with drawn arguments           *)
(***************************************************************************)
MaxIter == 2                  \* largest max_iter drawn

\* LIDAR_traitement.py:105: the keyword arguments; class_sol is read nowhere
\* in the body
CorrArgs ==
    [class_non_classe : {1},
     classes_a_propager : {{6}, {6, 65}, {2, 6}},
     class_sol : {2},
     max_iter : 0..MaxIter]

\* the same graph with its nodes inserted in the reverse order
inverse(G) ==
    [G EXCEPT !.nodes = [i \in 1..Len(G.nodes) |-> G.nodes[Len(G.nodes) + 1 - i]]]

InitCorr ==
    /\ merge_VALID_SIZES = DefaultSizes
    /\ solver_VALID_SIZES = DefaultSizes
    /\ calls = <<>>
    /\ ret = <<>>
    /\ \E full \in {f \in SUBSET Cells(StageShape) : Cardinality(f) <= MaxVoxels} :
         \E cls \in [full -> StageClasses], p \in CorrArgs :
             LET g == VoxelGrid(StageShape, full, cls, <<>>)
                 G == voxel_graphe(g.counts, g.class_maj)
             IN  \/ args = <<"corriger", G, p>>
                 \/ args = <<"corriger", inverse(G), p>>

\* lines 129-131
Corr_copie ==
    /\ calls = <<>>
    /\ args[1] = "corriger"
    /\ calls' = <<"corriger_voxels_non_classes_iteratif">>
    /\ ret' = [G_corr |-> args[2], it |-> 0, changements |-> 0,
               total_remplaces |-> 0, ligne |-> 133]
    /\ UNCHANGED <<merge_VALID_SIZES, solver_VALID_SIZES, args>>

\* lines 133-156: one round of the loop; it counts the rounds begun, ligne 158
\* is the return
Corr_iteration ==
    /\ calls = <<"corriger_voxels_non_classes_iteratif">>
    /\ args[1] = "corriger"
    /\ ret.ligne = 133
    /\ ret.it < args[3].max_iter
    /\ LET nodes_nc == SelectSeq([i \in 1..Len(ret.G_corr.nodes) |-> i],
               LAMBDA i : ret.G_corr.nodes[i].class_maj = args[3].class_non_classe)
       IN  IF nodes_nc = <<>>
           THEN ret' = [ret EXCEPT !.ligne = 158]
           ELSE LET p == corriger_passe(ret.G_corr, nodes_nc,
                                        args[3].classes_a_propager, 0)
                IN  ret' = [G_corr |-> p.G_corr,
                            it |-> ret.it + 1,
                            changements |-> p.changements,
                            total_remplaces |-> ret.total_remplaces + p.changements,
                            ligne |-> IF p.changements = 0 THEN 158 ELSE 133]
    /\ UNCHANGED <<merge_VALID_SIZES, solver_VALID_SIZES, calls, args>>

\* line 133 with the range exhausted, then lines 158-159
Corr_retour ==
    /\ calls = <<"corriger_voxels_non_classes_iteratif">>
    /\ args[1] = "corriger"
    /\ ret.ligne = 133
    /\ ret.it >= args[3].max_iter
    /\ ret' = [ret EXCEPT !.ligne = 158]
    /\ UNCHANGED <<merge_VALID_SIZES, solver_VALID_SIZES, calls, args>>

NextCorr ==
    \/ Corr_copie
    \/ Corr_iteration
    \/ Corr_retour

SpecCorr == InitCorr /\ [][NextCorr]_vars


(***************************************************************************)
(* Claims C25-C26 (SpecCorr)                                                *)
(***************************************************************************)
Correcting == calls = <<"corriger_voxels_non_classes_iteratif">> /\ args[1] = "corriger"

Corrected == Correcting /\ ret.ligne = 158

\* the class of the node id in the graph G
ClassOf(G, id) == G.nodes[node_index(G, id)].class_maj

\* the nodes whose class the call has changed so far
Reclassified == {id \in NodeIds(args[2]) : ClassOf(ret.G_corr, id) # ClassOf(args[2], id)}

\* C25: corriger_voxels_non_classes_iteratif keeps the node set and the edge
\* set, changes only nodes whose class was target_class, gives them only a
\* class of propagate_from that one of their neighbours holds, never gives
\* ground_class to a node whatever the arguments are, and stops after at most
\* max_iter rounds, earlier when a round changes nothing or no node of the
\* target class remains
C25_ReclassifiesOnlyTargetsNeverGround ==
    Correcting =>
        LET G == args[2]
            p == args[3]
        IN  /\ Len(ret.G_corr.nodes) = Len(G.nodes)
            /\ \A i \in 1..Len(G.nodes) :
                   [ret.G_corr.nodes[i] EXCEPT !.class_maj = 0] =
                       [G.nodes[i] EXCEPT !.class_maj = 0]
            /\ ret.G_corr.edges = G.edges
            /\ \A id \in Reclassified :
                   /\ ClassOf(G, id) = p.class_non_classe
                   /\ ClassOf(ret.G_corr, id) \in p.classes_a_propager
                   /\ \E v \in neighbors(G, id) :
                          ClassOf(ret.G_corr, v) = ClassOf(ret.G_corr, id)
                   /\ ClassOf(ret.G_corr, id) # p.class_sol
            /\ ret.it <= p.max_iter
            /\ (ret.ligne = 133 /\ ret.it > 0) => ret.changements > 0
            /\ (ret.ligne = 158 /\ ret.it < p.max_iter) =>
                   \/ ret.changements = 0
                   \/ \A nd \in Range(ret.G_corr.nodes) :
                          nd.class_maj # p.class_non_classe

\* the nodes of class c of G and the nodes of the target class linked to one
\* of them by a path of at most k edges whose inner nodes are of the target
\* class
RECURSIVE WithinReach(_, _, _, _)
WithinReach(G, target, c, k) ==
    IF k = 0 THEN {id \in NodeIds(G) : ClassOf(G, id) = c}
    ELSE LET near == WithinReach(G, target, c, k - 1)
         IN  near \cup {id \in NodeIds(G) :
                           /\ ClassOf(G, id) = target
                           /\ \E v \in neighbors(G, id) : v \in near}

\* C26: with a single class in propagate_from the graph returned depends only
\* on the input graph and max_iter, not on the order in which the nodes of the
\* target class are visited in a round: a node of the target class is
\* reclassified if and only if a path of at most max_iter edges, whose inner
\* nodes are all of the target class, links it to a node of the propagated
\* class
C26_ReclassifiedIffWithinMaxIter ==
    (Corrected /\ Cardinality(args[3].classes_a_propager) = 1) =>
        LET G == args[2]
            p == args[3]
            c == CHOOSE k \in p.classes_a_propager : TRUE
            other == corriger_voxels_non_classes_iteratif(inverse(G), p.class_non_classe,
                         p.classes_a_propager, p.max_iter)
        IN  /\ \A id \in NodeIds(G) : ClassOf(ret.G_corr, id) = ClassOf(other, id)
            /\ \A id \in NodeIds(G) :
                   ClassOf(G, id) = p.class_non_classe =>
                       (ClassOf(ret.G_corr, id) = c <=>
                           id \in WithinReach(G, p.class_non_classe, c, p.max_iter))


(***************************************************************************)
(* Claim C27 (SpecCost)                                                     *)
(***************************************************************************)
\* the footprints of the bricks a and b have a cell (x, y) in common
SharesCell(a, b) ==
    /\ bbox(a)[1] < bbox(b)[3] /\ bbox(b)[1] < bbox(a)[3]
    /\ bbox(a)[2] < bbox(b)[4] /\ bbox(b)[2] < bbox(a)[4]

\* a list of bricks that lie side by side: no two bricks of a layer on one cell
SideBySide(bricks) ==
    \A i, j \in 1..Len(bricks) :
        (i # j /\ bricks[i].layer = bricks[j].layer) => ~SharesCell(bricks[i], bricks[j])

\* C27: the perpendicularity penalty of a layer is the number of distinct
\* pairs (brick, brick-below) of equal orientation, brick-below being a brick
\* of the layer below that occupies a cell directly under a footprint cell of
\* brick; a pair counts once however many cells it shares, so a brick stacked
\* on a brick of the same orientation adds exactly 1 and crossed bricks add 0
C27_PenaltyCountsPairsOnce ==
    (calls = <<"perpendicularity_penalty_fast">> /\ SideBySide(args[2])) =>
        LET bricks == args[2]
            z == ret.current_z
        IN  ret.penalty =
                Cardinality({p \in InLayer(bricks, z) \X InLayer(bricks, z - 1) :
                    /\ SharesCell(bricks[p[1]], bricks[p[2]])
                    /\ bricks[p[1]].orientation = bricks[p[2]].orientation})

\* a 1x4 laid on a 1x4 of the same orientation, four cells shared, costs 1;
\* the brick beside it in the upper layer has nothing below it
C27_Witness ==
    /\ calls = <<"perpendicularity_penalty_fast">>
    /\ args[2] = <<Brick(0, 0, 0, 4, 1, 7, "H"), Brick(1, 0, 0, 4, 1, 7, "H"),
                   Brick(1, 1, 1, 1, 3, 7, "V")>>
    /\ ret.current_z = 1
    /\ ret.penalty = 1


(***************************************************************************)
(* brique_merge.py: the parser of LDraw lines, and the round trip of its    *)
(* self-test (TEST C)                                                       *)
(***************************************************************************)
\* int(round(n / d)) for an integer n and d > 0: the nearest integer, a half
\* going to the even neighbour
round_div(n, d) ==
    LET q == n \div d
        r == n % d
    IN  IF 2 * r < d THEN q
        ELSE IF 2 * r > d THEN q + 1
        ELSE IF q % 2 = 0 THEN q ELSE q + 1

\* brique_merge.py:66-107, with SCALE_XY = 20 and SCALE_Z = 24 (lines 25-26);
\* every field of the lines read here is an integer
bricks_from_ldr(lignes) ==
    LET kept == SelectSeq(lignes, LAMBDA parts : Len(parts) >= 5 /\ parts[1] = "1")
    IN  [k \in 1..Len(kept) |->
            Brick(round_div(0 - kept[k][4], 24), round_div(kept[k][3], 20),
                  round_div(kept[k][5], 20), 1, 1, kept[k][2], "H")]

\* brique_merge.py:171, 181 and 224: voxel_LDRAW_classif returns the placement
\* lines of the file it wrote, the two header lines left out
Test_C ==
    /\ calls = <<>>
    /\ args[1] = "grid"
    /\ calls' = <<"voxel_LDRAW_classif", "bricks_from_numpy", "bricks_from_ldr">>
    /\ LET fichier == voxel_LDRAW_classif(args[2].counts, args[2].class_maj)
           ldraw_class == SubSeq(fichier, Len(flat_header) + 1, Len(fichier))
       IN  ret' = [briques_numpy_couleur |->
                       bricks_from_numpy(args[2].counts, args[2].class_maj, "COULEUR"),
                   briques_parsed |-> bricks_from_ldr(ldraw_class)]
    /\ UNCHANGED <<merge_VALID_SIZES, solver_VALID_SIZES, args>>

InitTestC ==
    /\ merge_VALID_SIZES = DefaultSizes
    /\ solver_VALID_SIZES = DefaultSizes
    /\ calls = <<>>
    /\ ret = <<>>
    /\ \E full \in {f \in SUBSET Cells(GraphShape) : Cardinality(f) <= MaxVoxels} :
          \E cls \in [full -> ExportClasses] :
              args = <<"grid", VoxelGrid(GraphShape, full, cls, <<>>)>>

NextTestC == Test_C

SpecTestC == InitTestC /\ [][NextTestC]_vars


(***************************************************************************)
(* Claim C28 (SpecTestC)                                                    *)
(***************************************************************************)
\* C28: for any voxel grid, bricks_from_ldr applied to the lines returned by
\* voxel_LDRAW_classif yields as many bricks as bricks_from_numpy in colour
\* mode with the standard palette, and every brick of bricks_from_numpy has a
\* parsed brick with the same (layer, x, y) and the same color
C28_ParsedBricksMatchNumpyBricks ==
    calls = <<"voxel_LDRAW_classif", "bricks_from_numpy", "bricks_from_ldr">> =>
        /\ Len(ret.briques_parsed) = Len(ret.briques_numpy_couleur)
        /\ \A i \in 1..Len(ret.briques_numpy_couleur) :
               \E j \in 1..Len(ret.briques_parsed) :
                   /\ ret.briques_parsed[j].layer = ret.briques_numpy_couleur[i].layer
                   /\ ret.briques_parsed[j].x = ret.briques_numpy_couleur[i].x
                   /\ ret.briques_parsed[j].y = ret.briques_numpy_couleur[i].y
                   /\ ret.briques_parsed[j].color = ret.briques_numpy_couleur[i].color


(***************************************************************************)
(* SpecSolCodes: the ground consolidations on the graphs of small grids     *)
(* whose voxels take classifications from both halves of the LAS range      *)
(* 0..255                                                                   *)
(***************************************************************************)
CodeShape == <<2, 2, 2>>

CodeClasses == {2, 6, 127, 128, 255}

InitSolCodes ==
    /\ merge_VALID_SIZES = DefaultSizes
    /\ solver_VALID_SIZES = DefaultSizes
    /\ calls = <<>>
    /\ ret = <<>>
    /\ \E full \in {f \in SUBSET Cells(CodeShape) : Cardinality(f) <= MaxVoxels} :
          \E cls \in [full -> CodeClasses] :
              args = <<"grid", VoxelGrid(CodeShape, full, cls, <<>>)>>

SpecSolCodes == InitSolCodes /\ [][NextSol]_vars


(***************************************************************************)
(* Claim C29 (SpecSolCodes)                                                 *)
(***************************************************************************)
\* C29: ground consolidation preserves the class codes of the whole LAS range:
\* for every code c in 1..255 other than ground (2), an input node with
\* class_maj = c is returned at its coord with class_maj = c by each of the
\* three strategies; the 8-bit signed dense grid wraps no code of 128..255
C29_CodesUpTo255Preserved ==
    Consolidated =>
        \A nd \in Range(SolInput.nodes) :
            (nd.class_maj \in 1..255 /\ nd.class_maj # 2) =>
                HasNode(ret, nd.coord, nd.class_maj)

=============================================================================
